---- MODULE Spec2Model ----
(***************************************************************************)
(* A model of the import-photos and photo-pages commands of gallery-utils   *)
(* (ImportPhotos.js, PhotoPages.js and Utils.js): the date filter, hashtag  *)
(* matching, the tag-write / rename / restore protocol of updateExifTags,   *)
(* the import cache, the copy into the album directories, the album date    *)
(* update, the reading and rewriting of the index documents, the argument   *)
(* checks, the photo keys, the front matter of a photo and the promotion of *)
(* album photos into the gallery, the reading of the export, the steps of  *)
(* run with the exiftool handle, and the canonical file name across time   *)
(* zones.                                                                  *)
(*                                                                         *)
(* Strings are sequences of one-character strings; a Map is a sequence of  *)
(* [key, val] entries in insertion order; a directory is a tuple of path   *)
(* segments; a file path is [dir, name]; a document is a sequence of       *)
(* chunks (markers, TOML lines, other text).                               *)
(***************************************************************************)
EXTENDS Integers, Sequences, FiniteSets, TLC

VARIABLES
    photoList,      \* the photo records read from the export
    albumList,      \* the album records of getAlbumDetails
    zone,           \* UTC offset of the running process (process.env.TZ), in ticks
    importList,     \* the Map built by buildImportList
    fs,             \* the files on disk: path -> content
    dirs,           \* the directories that exist on disk
    importCache,    \* this.importCache
    exiftoolEnded,  \* this.exiftool.ended
    pc,             \* position of the caller / of importPhotos
    ai,             \* index of the album key importPhotos is at
    pj,             \* index of the photo in that album's bucket
    cur,            \* importPhoto, the record handed to this.importPhoto
    cached,         \* the local variable cached of importPhotos
    err,            \* the error the last failed call threw ("none" otherwise)
    runs,           \* number of importPhotos calls made on this instance
                    \* (for the promotion: of promotions completed so far)
    tagWrites,      \* per identity key: updateExifTags tag writes so far
    runTags,        \* per identity key: tag writes during the current call
    copyLog,        \* the copies importPhoto made during the current call
    startCache,     \* the keys that were cached when the current call began
    halted,         \* keys whose updateExifTags stopped between its two renames
    arg,            \* the arguments of the call under way and what it finds on disk
    ret,            \* what the last call returned ("none" before it returns)
    xi,             \* index of the album updateIndexFiles is at
    fsBefore,       \* the files on disk when updateIndexFiles was called
    albumPhotoMap,  \* the Map of buildAlbumMap / filterAlbumPhotos
    gallery,        \* the first-level directories of photosPath: key -> files
    mi              \* index of the Map entry copyAlbumPhotos is at

vars == <<photoList, albumList, zone, importList, fs, dirs, importCache,
          exiftoolEnded, pc, ai, pj, cur, cached, err, runs, tagWrites,
          runTags, copyLog, startCache, halted, arg, ret, xi, fsBefore,
          albumPhotoMap, gallery, mi>>

\* the variables that the import steps never touch
pagesVars == <<arg, ret, xi, fsBefore, albumPhotoMap, gallery, mi>>

----------------------------------------------------------------------------
(* Bounds *)

MaxCaptionLen == 2      \* longest caption drawn for the matching checks
MaxRuns == 2            \* importPhotos calls made on one instance
TicksPerDay == 3        \* clock resolution: timestamp ticks per calendar day
MaxDay == 2             \* last calendar day drawn for album dates

----------------------------------------------------------------------------
(* Strings and Maps *)

Alphabet == {"a", "b"}

RECURSIVE SeqsUpTo(_, _)
SeqsUpTo(S, n) ==
    IF n = 0 THEN {<<>>}
    ELSE LET shorter == SeqsUpTo(S, n - 1)
         IN  shorter \cup {Append(s, x) : s \in shorter, x \in S}

\* String.prototype.includes: t occurs in s as a contiguous substring
Includes(s, t) ==
    \E i \in 0..(Len(s) - Len(t)) : SubSeq(s, i + 1, i + Len(t)) = t

\* Map.prototype.has / get / set on a sequence of entries
MapHas(m, k) == \E i \in 1..Len(m) : m[i].key = k

MapGet(m, k) == m[CHOOSE i \in 1..Len(m) : m[i].key = k].val

MapSet(m, k, v) ==
    IF MapHas(m, k)
    THEN [i \in 1..Len(m) |-> IF m[i].key = k THEN [key |-> k, val |-> v] ELSE m[i]]
    ELSE Append(m, [key |-> k, val |-> v])

MapKeys(m) == {m[i].key : i \in 1..Len(m)}

----------------------------------------------------------------------------
(* Paths *)

inputPath == <<"input">>
contentPath == <<"content">>

\* path.dirname / path.basename of a directory-like tuple of segments
Dirname(p) == SubSeq(p, 1, Len(p) - 1)
Basename(p) == p[Len(p)]

\* file names: the export's own names and the canonical "-ig" names
RawName(uri) == [kind |-> "raw", n |-> uri.base, z |-> 0, ext |-> uri.ext, sfx |-> ""]

\* DateTime.fromSeconds / DateTime.fromISO(date) / toISODate in the process zone
FromSeconds(ts) == ts
FromISO(day) == day * TicksPerDay - zone
ToISODate(instant) == (instant + zone) \div TicksPerDay

\* takenAt.toFormat("yyyyMMdd-HHmmssZZZ"): local wall clock time and the offset
ToFormat(instant) == [clock |-> instant + zone, offset |-> zone]

----------------------------------------------------------------------------
(* Records *)

\* a photo record of the export; uri is its identity key
Photo(base, title, ts) ==
    [uri |-> [dir |-> "m1", base |-> base, ext |-> "jpg"],
     creation_timestamp |-> ts,
     title |-> title]

\* getAlbumDetails: the parsed front matter annotated with the index document,
\* its directory and the directory's base name; the parsed fields are kept
AnnotateAlbum(tomlObject, albumIndex) ==
    [indexPath |-> albumIndex,
     albumPath |-> Dirname(albumIndex),
     albumKey |-> Basename(Dirname(albumIndex)),
     updated |-> FALSE] @@ tomlObject

\* the index documents fast-glob can find under the content directory
AlbumIndexes ==
    {<<"content", "albums", "k1", "index.md">>,
     <<"content", "albums", "k2", "index.md">>,
     <<"content", "other", "k1", "index.md">>}

\* two albums, in any traversal order
AlbumListsOf(HashtagLists, Days) ==
    {<<AnnotateAlbum([date |-> d1, hashtags |-> h1], x1),
       AnnotateAlbum([date |-> d2, hashtags |-> h2], x2)>> :
        <<x1, x2>> \in {xx \in AlbumIndexes \X AlbumIndexes : xx[1] # xx[2]},
        <<h1, h2>> \in HashtagLists \X HashtagLists,
        <<d1, d2>> \in Days \X Days}

\* two photos with distinct identity keys
PhotoListsOf(Titles, Stamps) ==
    {<<Photo(1, t1, s1), Photo(2, t2, s2)>> :
        <<t1, t2>> \in Titles \X Titles,
        <<s1, s2>> \in Stamps \X Stamps}

----------------------------------------------------------------------------
(* buildImportList *)

\* photo.title.includes( tag ), as a prefix test only
TagMatchesPrefixOnly(photo, tag) ==
    Len(tag) <= Len(photo.title) /\ SubSeq(photo.title, 1, Len(tag)) = tag

\* photo.title.includes( tag ) === true
TagMatches(photo, tag) == Includes(photo.title, tag)

\* the body of the innermost loop
AddMatch(il, album, tag, photo) ==
    IF TagMatches(photo, tag)
    THEN LET il1 == IF ~MapHas(il, album.albumKey)
                    THEN MapSet(il, album.albumKey, <<>>)
                    ELSE il
             importAlbum == MapGet(il1, album.albumKey)
         IN  IF ~MapHas(importAlbum, photo.uri)
             THEN MapSet(il1, album.albumKey, MapSet(importAlbum, photo.uri, photo))
             ELSE il1
    ELSE il

RECURSIVE PhotoLoop(_, _, _, _, _)
PhotoLoop(il, album, tag, photos, n) ==
    IF n > Len(photos) THEN il
    ELSE PhotoLoop(AddMatch(il, album, tag, photos[n]), album, tag, photos, n + 1)

RECURSIVE TagLoop(_, _, _, _)
TagLoop(il, album, photos, t) ==
    IF t > Len(album.hashtags) THEN il
    ELSE TagLoop(PhotoLoop(il, album, album.hashtags[t], photos, 1), album, photos, t + 1)

RECURSIVE AlbumLoop(_, _, _, _)
AlbumLoop(il, albums, photos, a) ==
    IF a > Len(albums) THEN il
    ELSE AlbumLoop(TagLoop(il, albums[a], photos, 1), albums, photos, a + 1)

BuildImportList(photos, albums) == AlbumLoop(<<>>, albums, photos, 1)

----------------------------------------------------------------------------
(* The file system *)

FilePath(dir, name) == [dir |-> dir, name |-> name]

\* path.join( this.inputPath, photo.uri )
PhotoPath(photo) == FilePath(inputPath \o <<photo.uri.dir>>, RawName(photo.uri))

\* photoPath + "_original", the sibling exiftool keeps the original under
OriginalPath(photoPath) ==
    FilePath(photoPath.dir, [photoPath.name EXCEPT !.sfx = "_original"])

\* the name formatted in UTC whatever the zone of the process
NewFileNameInUTC(photo) ==
    LET takenAt == FromSeconds(photo.creation_timestamp)
    IN  [kind |-> "ig", n |-> takenAt, z |-> 0,
         ext |-> photo.uri.ext, sfx |-> ""]

\* `${takenAt.toFormat( "yyyyMMdd-HHmmssZZZ" )}-ig${fileExt}`
NewFileName(photo) ==
    LET takenAt == FromSeconds(photo.creation_timestamp)
        stamp == ToFormat(takenAt)
    IN  [kind |-> "ig", n |-> stamp.clock, z |-> stamp.offset,
         ext |-> photo.uri.ext, sfx |-> ""]

\* path.join( path.dirname( photoPath ), newFileName )
NewPhotoPath(photo) == FilePath(PhotoPath(photo).dir, NewFileName(photo))

\* path.join( this.contentPath, "/albums/", album )
AlbumDir(album) == contentPath \o <<"albums", album>>

\* the copy aimed at the file's own place instead of the album directory
ImportTargetInPlace(album, newPath) == newPath

\* path.join( albumDir, path.basename( photo.newPath ) )
ImportTarget(album, newPath) == FilePath(AlbumDir(album), newPath.name)

Exists(files, p) == p \in DOMAIN files

WriteFile(files, p, data) ==
    [q \in DOMAIN files \cup {p} |-> IF q = p THEN data ELSE files[q]]

\* fs.copyFile( src, dst )
CopyFile(files, src, dst) == WriteFile(files, dst, files[src])

\* fs.rename( from, to ): to is replaced, from disappears
Rename(files, from, to) ==
    IF from = to THEN files
    ELSE [q \in (DOMAIN files \cup {to}) \ {from} |->
            IF q = to THEN files[from] ELSE files[q]]

\* file contents: whose picture it is and whether it carries the new tags
Untagged(photo) == [of |-> photo.uri, tagged |-> FALSE]
Tagged(photo) == [of |-> photo.uri, tagged |-> TRUE]

\* exiftool.write that overwrites the file and keeps no original
ExiftoolWriteInPlace(files, photo) == WriteFile(files, PhotoPath(photo), Tagged(photo))

\* exiftool.write( photoPath, newTags ) keeps the original as photoPath_original
ExiftoolWrite(files, photo) ==
    LET photoPath == PhotoPath(photo)
    IN  WriteFile(WriteFile(files, OriginalPath(photoPath), files[photoPath]),
                  photoPath, Tagged(photo))

\* Utils.testDirPath that accepts every path
TestDirPathAlwaysOk(dirPath) == "ok"

\* Utils.testDirPath: lstatSync finds a directory, or ENOENT becomes a TypeError
TestDirPath(dirPath) == IF dirPath \in dirs THEN "ok" ELSE "TypeError"

----------------------------------------------------------------------------
(* updateExifTags, importPhoto and importPhotos, step by step *)

NoError == [kind |-> "none", op |-> "none"]

Keys == {photoList[i].uri : i \in 1..Len(photoList)}

\* the album key and the [ key, photo ] entry importPhotos is at
CurAlbumKey == importList[ai].key
CurBucket == importList[ai].val
CurKey == CurBucket[pj].key
CurPhoto == CurBucket[pj].val

InLoop == pc = "loop" /\ ai <= Len(importList)

\* this.importCache.has( key ) === true
CacheHas(cache, key) == MapHas(cache, key)

\* the store after importPhoto, left out
CacheStoreSkipped(cache, importPhoto, isCached) == cache

\* if ( cached === false ) this.importCache.set( importPhoto.uri, importPhoto )
CacheStore(cache, importPhoto, isCached) ==
    IF isCached = FALSE
    THEN MapSet(cache, importPhoto.photo.uri, importPhoto)
    ELSE cache

\* the restore done as a copy, which leaves the "_original" sibling behind
RestoreOriginalByCopy(files, photoPath) ==
    CopyFile(files, OriginalPath(photoPath), photoPath)

\* fs.rename( photoPath + "_original", photoPath )
RestoreOriginal(files, photoPath) ==
    Rename(files, OriginalPath(photoPath), photoPath)

\* buildImportList( photoList, albumDetails )
DoBuildImportList ==
    /\ pc = "new"
    /\ importList' = BuildImportList(photoList, albumList)
    /\ pc' = "idle"
    /\ UNCHANGED <<photoList, albumList, zone, fs, dirs, importCache,
                   exiftoolEnded, ai, pj, cur, cached, err, runs, tagWrites,
                   runTags, copyLog, startCache, halted>>
    /\ UNCHANGED pagesVars

\* importPhotos( importList ) is called: the loops start at the first entry
ImportPhotosCall ==
    /\ pc = "idle"
    /\ runs < MaxRuns
    /\ runs' = runs + 1
    /\ pc' = "loop"
    /\ ai' = 1
    /\ pj' = 1
    /\ cached' = FALSE
    /\ err' = NoError
    /\ runTags' = [k \in Keys |-> 0]
    /\ copyLog' = <<>>
    /\ startCache' = MapKeys(importCache)
    /\ UNCHANGED <<photoList, albumList, zone, importList, fs, dirs,
                   importCache, exiftoolEnded, cur, tagWrites, halted>>
    /\ UNCHANGED pagesVars

\* the key is in the cache: the cached record is used
CacheHit ==
    /\ InLoop
    /\ CacheHas(importCache, CurKey)
    /\ cur' = MapGet(importCache, CurKey)
    /\ cached' = TRUE
    /\ pc' = "import"
    /\ UNCHANGED <<photoList, albumList, zone, importList, fs, dirs,
                   importCache, exiftoolEnded, ai, pj, err, runs, tagWrites,
                   runTags, copyLog, startCache, halted>>
    /\ UNCHANGED pagesVars

\* the test of this.exiftool.ended left out: the handle stays as it is
RestartNever(ended) == ended

\* if ( this.exiftool.ended ) this.exiftool = new ExifTool(): whether the
\* handle of the instance is ended after the test
RestartIfEnded(ended) == IF ended THEN FALSE ELSE ended

\* this.exiftool.end(): the handle is ended from the call on, and a call on an
\* ended handle leaves it ended
ExiftoolEnd(ended) == TRUE

\* updateExifTags up to exiftool.write: an ended exiftool is replaced, the
\* tags are written; the write is rejected when the source file is missing
ExifWrite ==
    /\ InLoop
    /\ ~CacheHas(importCache, CurKey)
    /\ exiftoolEnded' = RestartIfEnded(exiftoolEnded)
    /\ IF Exists(fs, PhotoPath(CurPhoto))
       THEN /\ fs' = ExiftoolWrite(fs, CurPhoto)
            /\ tagWrites' = [tagWrites EXCEPT ![CurKey] = @ + 1]
            /\ runTags' = [runTags EXCEPT ![CurKey] = @ + 1]
            /\ pc' = "written"
            /\ err' = err
       ELSE /\ pc' = "idle"
            /\ err' = [kind |-> "ExifToolError", op |-> "updateExifTags"]
            /\ UNCHANGED <<fs, tagWrites, runTags>>
    /\ UNCHANGED <<photoList, albumList, zone, importList, dirs, importCache,
                   ai, pj, cur, cached, runs, copyLog, startCache, halted>>
    /\ UNCHANGED pagesVars

\* fs.rename( photoPath, newPhotoPath )
RenameToNew ==
    /\ pc = "written"
    /\ fs' = Rename(fs, PhotoPath(CurPhoto), NewPhotoPath(CurPhoto))
    /\ pc' = "renamed"
    /\ UNCHANGED <<photoList, albumList, zone, importList, dirs, importCache,
                   exiftoolEnded, ai, pj, cur, cached, err, runs, tagWrites,
                   runTags, copyLog, startCache, halted>>
    /\ UNCHANGED pagesVars

\* fs.rename( photoPath + "_original", photoPath ); photo.newPath is set and
\* the photo returned to importPhotos
RenameOriginalBack ==
    /\ pc = "renamed"
    /\ fs' = RestoreOriginal(fs, PhotoPath(CurPhoto))
    /\ cur' = [photo |-> CurPhoto, newPath |-> NewPhotoPath(CurPhoto)]
    /\ cached' = FALSE
    /\ pc' = "import"
    /\ UNCHANGED <<photoList, albumList, zone, importList, dirs, importCache,
                   exiftoolEnded, ai, pj, err, runs, tagWrites, runTags,
                   copyLog, startCache, halted>>
    /\ UNCHANGED pagesVars

\* execution stops between the two renames: the second fs.rename rejects and
\* the error leaves importPhotos
RenameOriginalBackFails ==
    /\ pc = "renamed"
    /\ pc' = "idle"
    /\ err' = [kind |-> "FsError", op |-> "updateExifTags"]
    /\ halted' = halted \cup {CurKey}
    /\ UNCHANGED <<photoList, albumList, zone, importList, fs, dirs,
                   importCache, exiftoolEnded, ai, pj, cur, cached, runs,
                   tagWrites, runTags, copyLog, startCache>>
    /\ UNCHANGED pagesVars

\* importPhoto( albumKey, importPhoto ), then the cache store and the next
\* entry of the loops
ImportPhoto ==
    /\ pc = "import"
    /\ IF TestDirPath(AlbumDir(CurAlbumKey)) = "ok"
       THEN /\ fs' = CopyFile(fs, cur.newPath, ImportTarget(CurAlbumKey, cur.newPath))
            /\ copyLog' = Append(copyLog, [album |-> CurAlbumKey, key |-> CurKey,
                                           cached |-> cached, src |-> cur.newPath])
            /\ importCache' = CacheStore(importCache, cur, cached)
            /\ IF pj < Len(CurBucket)
               THEN pj' = pj + 1 /\ ai' = ai
               ELSE pj' = 1 /\ ai' = ai + 1
            /\ pc' = "loop"
            /\ err' = err
       ELSE /\ pc' = "idle"
            /\ err' = [kind |-> TestDirPath(AlbumDir(CurAlbumKey)), op |-> "importPhoto"]
            /\ UNCHANGED <<fs, copyLog, importCache, ai, pj>>
    /\ UNCHANGED <<photoList, albumList, zone, importList, dirs,
                   exiftoolEnded, cur, cached, runs, tagWrites, runTags,
                   startCache, halted>>
    /\ UNCHANGED pagesVars

\* the loops are through: this.tidyUp() ends exiftool and importPhotos returns
ImportPhotosReturn ==
    /\ pc = "loop"
    /\ ai > Len(importList)
    /\ exiftoolEnded' = ExiftoolEnd(exiftoolEnded)
    /\ pc' = "idle"
    /\ UNCHANGED <<photoList, albumList, zone, importList, fs, dirs,
                   importCache, ai, pj, cur, cached, err, runs, tagWrites,
                   runTags, copyLog, startCache, halted>>
    /\ UNCHANGED pagesVars

----------------------------------------------------------------------------
(* updateAlbumDetails *)

\* if ( photoDate > albumDate ) albumDate = photoDate, with the test reversed
LaterDateReversed(albumDate, photo) ==
    LET photoDate == FromSeconds(photo.creation_timestamp)
    IN  IF photoDate < albumDate THEN photoDate ELSE albumDate

\* if ( photoDate > albumDate ) albumDate = photoDate
LaterDate(albumDate, photo) ==
    LET photoDate == FromSeconds(photo.creation_timestamp)
    IN  IF photoDate > albumDate THEN photoDate ELSE albumDate

RECURSIVE BucketDate(_, _, _)
BucketDate(albumDate, bucket, n) ==
    IF n > Len(bucket) THEN albumDate
    ELSE BucketDate(LaterDate(albumDate, bucket[n].val), bucket, n + 1)

\* album.updated = true, set only when the date moved
UpdatedFlagIfChanged(album, albumDate) == ToISODate(albumDate) # album.date

\* album.updated = true
UpdatedFlag(album, albumDate) == TRUE

\* the body of the loop over the albums
UpdateAlbum(album, il) ==
    IF MapHas(il, album.albumKey)
    THEN LET albumDate == BucketDate(FromISO(album.date),
                                     MapGet(il, album.albumKey), 1)
         IN  [album EXCEPT !.date = ToISODate(albumDate),
                           !.updated = UpdatedFlag(album, albumDate)]
    ELSE album

UpdateAlbumDetails(albums, il) ==
    [a \in 1..Len(albums) |-> UpdateAlbum(albums[a], il)]

\* albumDetails = this.updateAlbumDetails( albumDetails, importList )
DoUpdateAlbumDetails ==
    /\ pc = "idle"
    /\ albumList' = UpdateAlbumDetails(albumList, importList)
    /\ pc' = "detailed"
    /\ UNCHANGED <<photoList, zone, importList, fs, dirs, importCache,
                   exiftoolEnded, ai, pj, cur, cached, err, runs, tagWrites,
                   runTags, copyLog, startCache, halted>>
    /\ UNCHANGED pagesVars

----------------------------------------------------------------------------
(* Initial states and specifications *)

\* new command objects over an untouched export, the albums' directories and
\* the gallery directories in tree, about to be called with the arguments args
InitState(photos, albums, z, args, tree) ==
    /\ photoList = photos
    /\ albumList = albums
    /\ zone = z
    /\ importList = <<>>
    /\ fs = [p \in {PhotoPath(photos[i]) : i \in 1..Len(photos)} |->
                Untagged(CHOOSE ph \in {photos[i] : i \in 1..Len(photos)} :
                            PhotoPath(ph) = p)]
    /\ dirs = {albums[a].albumPath : a \in 1..Len(albums)}
    /\ importCache = <<>>
    /\ exiftoolEnded = FALSE
    /\ pc = "new"
    /\ ai = 1
    /\ pj = 1
    /\ cur = "none"
    /\ cached = FALSE
    /\ err = NoError
    /\ runs = 0
    /\ tagWrites = [k \in {photos[i].uri : i \in 1..Len(photos)} |-> 0]
    /\ runTags = [k \in {photos[i].uri : i \in 1..Len(photos)} |-> 0]
    /\ copyLog = <<>>
    /\ startCache = {}
    /\ halted = {}
    /\ arg = args
    /\ ret = "none"
    /\ xi = 1
    /\ fsBefore = fs
    /\ albumPhotoMap = <<>>
    /\ gallery = tree
    /\ mi = 1

\* the same with an empty gallery
InitCall(photos, albums, z, args) == InitState(photos, albums, z, args, <<>>)

\* the same, about to be called with the instance's own state only
InitWith(photos, albums, z) == InitCall(photos, albums, z, "none")

\* the import: short captions, one or two hashtags per album, equal or
\* different capture times
ImportTitles == {<<"a">>, <<"b">>, <<"a", "b">>}
ImportHashtags == {<< <<"a">> >>, << <<"b">> >>, << <<"a">>, <<"b">> >>}

Init ==
    \E photos \in PhotoListsOf(ImportTitles, {1, 2}),
       albums \in AlbumListsOf(ImportHashtags, {0}) :
        InitWith(photos, albums, 0)

Next ==
    \/ DoBuildImportList
    \/ ImportPhotosCall
    \/ CacheHit
    \/ ExifWrite
    \/ RenameToNew
    \/ RenameOriginalBack
    \/ RenameOriginalBackFails
    \/ ImportPhoto
    \/ ImportPhotosReturn

Spec == Init /\ [][Next]_vars

\* the matching alone: every caption up to MaxCaptionLen, hashtags that
\* overlap, nest and repeat
Captions == SeqsUpTo(Alphabet, MaxCaptionLen)
MatchHashtags ==
    {<< <<"a">> >>, << <<"b">> >>, << <<"a", "b">> >>,
     << <<"a">>, <<"b">> >>, << <<"b">>, <<"a", "b">> >>, << <<"a">>, <<"a">> >>}

InitMatch ==
    \E photos \in PhotoListsOf(Captions, {1}),
       albums \in AlbumListsOf(MatchHashtags, {0}) :
        InitWith(photos, albums, 0)

NextMatch == DoBuildImportList

SpecMatch == InitMatch /\ [][NextMatch]_vars

\* the album dates: every album date, capture time and process zone
Zones == {-1, 0, 1}
Stamps == 1..((MaxDay + 1) * TicksPerDay)
DateHashtags == {<< <<"a">> >>, << <<"b">> >>}

InitDates ==
    \E photos \in PhotoListsOf({<<"a">>}, Stamps),
       albums \in AlbumListsOf(DateHashtags, 0..MaxDay),
       z \in Zones :
        InitWith(photos, albums, z)

NextDates ==
    \/ DoBuildImportList
    \/ DoUpdateAlbumDetails

SpecDates == InitDates /\ [][NextDates]_vars

----------------------------------------------------------------------------
(* Properties of buildImportList *)

Built == pc # "new"

Albums == {albumList[a] : a \in 1..Len(albumList)}
Photos == {photoList[i] : i \in 1..Len(photoList)}

\* the caption contains at least one of the album's hashtags
MatchesAlbum(photo, album) ==
    \E t \in 1..Len(album.hashtags) : Includes(photo.title, album.hashtags[t])

\* the bucket of an album key, empty when the key is absent
BucketOf(il, albumKey) == IF MapHas(il, albumKey) THEN MapGet(il, albumKey) ELSE <<>>

\* the number of entries of a bucket stored under an identity key
EntriesFor(bucket, uri) == Cardinality({i \in 1..Len(bucket) : bucket[i].key = uri})

\* C1: once buildImportList has run, every photo whose caption contains at
\* least one hashtag of an album is in the bucket of that album's key exactly
\* once, under its identity key, however many hashtags match and however
\* often they recur; this holds for every album the photo matches.
C1_MatchedPhotoOncePerAlbum ==
    Built =>
        \A album \in Albums : \A photo \in Photos :
            MatchesAlbum(photo, album) =>
                /\ MapHas(importList, album.albumKey)
                /\ EntriesFor(BucketOf(importList, album.albumKey), photo.uri) = 1
                /\ MapGet(BucketOf(importList, album.albumKey), photo.uri) = photo

\* a photo whose caption holds a hashtag twice and matches two hashtags of
\* one album, and which is in the buckets of two different album keys
C1_Witness ==
    /\ Built
    /\ Len(importList) = 2
    /\ \E photo \in Photos : \E album \in Albums :
        /\ photo.title = <<"a", "a">>
        /\ album.hashtags = << <<"a">>, <<"a">> >>
        /\ \A i \in 1..2 : EntriesFor(importList[i].val, photo.uri) = 1

\* C2: every photo stored under an album key has a caption that contains at
\* least one hashtag of that album, for every album of the list that has
\* this key.
C2_BucketPhotosMatchAlbum ==
    Built =>
        \A album \in Albums :
            LET bucket == BucketOf(importList, album.albumKey)
            IN  \A i \in 1..Len(bucket) : MatchesAlbum(bucket[i].val, album)

----------------------------------------------------------------------------
(* Properties of importPhotos, updateExifTags and importPhoto *)

\* importPhotos has returned without an error
Completed == pc = "idle" /\ runs > 0 /\ err.kind = "none"

\* the positions of the album keys whose bucket holds the identity key
BucketsWith(k) == {i \in 1..Len(importList) : MapHas(importList[i].val, k)}

FirstAlbumWith(k) ==
    importList[CHOOSE i \in BucketsWith(k) : \A o \in BucketsWith(k) : i <= o].key

LogFor(k) == {n \in 1..Len(copyLog) : copyLog[n].key = k}

\* the key is in two or more buckets and was not cached when the call began
FannedOut(k) == Cardinality(BucketsWith(k)) >= 2 /\ k \notin startCache

\* C3: within one importPhotos call, a photo key that is in the buckets of
\* two or more albums (and not cached from an earlier call) is tagged and
\* renamed by updateExifTags exactly once, for the first album processed;
\* every later album's copy is made from the cached record's newPath.
C3_TaggedOncePerRun ==
    \A k \in Keys :
        FannedOut(k) =>
            /\ runTags[k] <= 1
            /\ Completed =>
                /\ runTags[k] = 1
                /\ Cardinality(LogFor(k)) = Cardinality(BucketsWith(k))
                /\ \A n \in LogFor(k) :
                    IF copyLog[n].album = FirstAlbumWith(k)
                    THEN copyLog[n].cached = FALSE
                    ELSE /\ copyLog[n].cached = TRUE
                         /\ copyLog[n].src = MapGet(importCache, k).newPath

\* a completed call in which a photo went into two albums
C3_Witness ==
    /\ Completed
    /\ \E k \in Keys :
        /\ FannedOut(k)
        /\ runTags[k] = 1
        /\ \E n \in LogFor(k) : copyLog[n].cached = TRUE

\* C4: over every sequence of importPhotos calls on one instance, calls that
\* abort after the retag and rename included, updateExifTags writes the tags
\* of a photo at most once.
C4_TaggedAtMostOnceEver ==
    \A k \in Keys : tagWrites[k] <= 1

\* the files of the photo's source directory that hold the photo's picture
FilesOf(photo) ==
    {p \in DOMAIN fs : p.dir = PhotoPath(photo).dir /\ fs[p].of = photo.uri}

\* updateExifTags has just returned its photo to importPhotos
JustTagged == pc = "import" /\ cached = FALSE

\* C5: when updateExifTags has completed, exactly two files exist for the
\* photo in its source directory, the canonical renamed file with the new
\* tags and the untouched original at its original path; there is no
\* "_original" sibling, and newPath is the canonical renamed file.
C5_TwoFilesAfterUpdate ==
    JustTagged =>
        LET photo == cur.photo
        IN  /\ cur.newPath = NewPhotoPath(photo)
            /\ Exists(fs, NewPhotoPath(photo))
            /\ fs[NewPhotoPath(photo)] = Tagged(photo)
            /\ Exists(fs, PhotoPath(photo))
            /\ fs[PhotoPath(photo)] = Untagged(photo)
            /\ ~Exists(fs, OriginalPath(PhotoPath(photo)))
            /\ FilesOf(photo) = {NewPhotoPath(photo), PhotoPath(photo)}
            /\ Cardinality(FilesOf(photo)) = 2

\* updateExifTags has completed for the second photo of a directory, whose
\* canonical name is also the first photo's
C5_Witness ==
    /\ JustTagged
    /\ cur.photo = photoList[2]
    /\ NewPhotoPath(photoList[1]) = NewPhotoPath(photoList[2])
    /\ tagWrites[photoList[1].uri] = 1

\* the original, untagged picture is at the path
HoldsOriginal(p, photo) == Exists(fs, p) /\ fs[p] = Untagged(photo)

\* C6: in every state of updateExifTags the photo's original content is at
\* the source path or at the "_original" sibling; once execution has stopped
\* between the two renames the source path is missing and only the sibling
\* holds the original, and it stays so whatever the program does afterwards.
C6_OriginalNeverLost ==
    \A photo \in Photos :
        /\ \/ HoldsOriginal(PhotoPath(photo), photo)
           \/ HoldsOriginal(OriginalPath(PhotoPath(photo)), photo)
        /\ photo.uri \in halted =>
            /\ ~Exists(fs, PhotoPath(photo))
            /\ HoldsOriginal(OriginalPath(PhotoPath(photo)), photo)

\* a later importPhotos call has met the photo left between the two renames
\* and failed on it
C6_Witness ==
    /\ runs = 2
    /\ pc = "idle"
    /\ err = [kind |-> "ExifToolError", op |-> "updateExifTags"]
    /\ \E photo \in Photos :
        /\ photo.uri \in halted
        /\ ~Exists(fs, PhotoPath(photo))

\* C7: when importPhotos has completed, every album directory holds a file
\* named by the canonical name of each photo of its bucket, and the source
\* directory of every such photo holds its canonical renamed file.
C7_AllImported ==
    Completed =>
        \A i \in 1..Len(importList) : \A j \in 1..Len(importList[i].val) :
            LET photo == importList[i].val[j].val
            IN  /\ Exists(fs, FilePath(AlbumDir(importList[i].key), NewFileName(photo)))
                /\ Exists(fs, NewPhotoPath(photo))

\* a completed call that imported two photos with different canonical names
\* into two albums
C7_Witness ==
    /\ Completed
    /\ Len(importList) = 2
    /\ Len(copyLog) = 4
    /\ NewFileName(photoList[1]) # NewFileName(photoList[2])

\* one importPhoto call: with the album directory missing nothing is written
\* and the call fails with an error of the given kind, otherwise the file at
\* newPath is copied into the album directory under the same base name
ImportPhotoContract(kind) ==
    pc = "import" =>
        IF AlbumDir(CurAlbumKey) \in dirs
        THEN LET target == FilePath(AlbumDir(CurAlbumKey), cur.newPath.name)
             IN  /\ target \in DOMAIN fs'
                 /\ fs'[target] = fs[cur.newPath]
                 /\ \A p \in DOMAIN fs' \ {target} : p \in DOMAIN fs /\ fs'[p] = fs[p]
        ELSE /\ fs' = fs
             /\ pc' = "idle"
             /\ err' = [kind |-> kind, op |-> "importPhoto"]

\* C8 as amended: importPhoto checks the album directory first; when it is
\* missing the call fails with the TypeError of Utils.testDirPath (the error
\* class of the argument validation) and creates no file, otherwise it copies
\* the canonical renamed file into the directory under the same base name.
C8_MissingDirIsTypeError == [][ImportPhotoContract("TypeError")]_vars

\* one photo was copied into its album, the next album's directory is missing
C8_Witness ==
    /\ err = [kind |-> "TypeError", op |-> "importPhoto"]
    /\ Len(copyLog) >= 1
    /\ pc = "idle"

\* C8 as stated: a missing album directory makes importPhoto fail with a
\* filesystem error, not a validation error.
C8_MissingDirIsFsError == [][ImportPhotoContract("FsError")]_vars

----------------------------------------------------------------------------
(* Properties of updateAlbumDetails *)

Max(S) == CHOOSE x \in S : \A y \in S : y <= x

\* the calendar day, in the process zone, on which the photo was taken
CaptureDate(photo) == ToISODate(FromSeconds(photo.creation_timestamp))

CaptureDates(bucket) == {CaptureDate(bucket[n].val) : n \in 1..Len(bucket)}

DetailsStep == pc = "idle" /\ pc' = "detailed"

\* C9: updateAlbumDetails leaves every album whose key is in the import set
\* with the maximum of its former date and the capture dates of the photos of
\* its bucket; the date never moves earlier.
C9_DateIsMaximum ==
    [][DetailsStep =>
        \A a \in 1..Len(albumList) :
            MapHas(importList, albumList[a].albumKey) =>
                /\ albumList'[a].date =
                     Max({albumList[a].date} \cup
                         CaptureDates(MapGet(importList, albumList[a].albumKey)))
                /\ albumList'[a].date >= albumList[a].date]_vars

\* an album was moved to the later of two capture days, in a zone off UTC
C9_Witness ==
    /\ pc = "detailed"
    /\ zone # 0
    /\ \E album \in Albums :
        /\ album.updated
        /\ LET days == CaptureDates(BucketOf(importList, album.albumKey))
           IN  /\ Cardinality(days) = 2
               /\ album.date = Max(days)
               /\ album.date = MaxDay

\* C10: updateAlbumDetails flags exactly the albums whose key is in the
\* import set, also when the date stays the same; every other album is left
\* as it was, unflagged, and the list keeps its albums and their order.
C10_FlagsExactlyImported ==
    [][DetailsStep =>
        /\ Len(albumList') = Len(albumList)
        /\ \A a \in 1..Len(albumList) :
            /\ albumList'[a].indexPath = albumList[a].indexPath
            /\ albumList'[a].albumKey = albumList[a].albumKey
            /\ albumList'[a].hashtags = albumList[a].hashtags
            /\ IF MapHas(importList, albumList[a].albumKey)
               THEN albumList'[a].updated = TRUE
               ELSE /\ albumList'[a] = albumList[a]
                    /\ albumList'[a].updated = FALSE]_vars

\* one album is flagged although its date is later than every capture day
\* of its bucket, the other album has no bucket and no flag
C10_Witness ==
    /\ pc = "detailed"
    /\ \E x \in Albums, y \in Albums :
        /\ x.updated
        /\ \A d \in CaptureDates(BucketOf(importList, x.albumKey)) : d < x.date
        /\ ~MapHas(importList, y.albumKey)
        /\ ~y.updated

----------------------------------------------------------------------------
(* Index documents: getAlbumDetails and updateIndexFiles *)

\* an index document is a sequence of chunks: a "+++" marker, a run of TOML
\* lines (key = value, in order), or text that is not TOML
Marker == [kind |-> "marker", lines |-> <<>>]
TomlChunk(lines) == [kind |-> "toml", lines |-> lines]
TextChunk == [kind |-> "text", lines |-> <<>>]

\* the index document of a directory and its backup, as files
IndexName == [kind |-> "index", n |-> 0, z |-> 0, ext |-> "md", sfx |-> ""]
IndexFile(indexPath) == FilePath(Dirname(indexPath), IndexName)

\* album.indexPath + ".old"
OldPath(indexPath) ==
    FilePath(Dirname(indexPath), [IndexName EXCEPT !.sfx = ".old"])

\* toml.stringify: one line per defined key, in the order of the object's keys
TomlStringify(entries) == entries

\* toml.parse accepts the lines unless a key is defined twice
TomlParses(lines) ==
    \A i, j \in 1..Len(lines) : lines[i].key = lines[j].key => i = j

\* toml.parse: the object of the lines
TomlParse(lines) ==
    [k \in {lines[i].key : i \in 1..Len(lines)} |->
        lines[CHOOSE i \in 1..Len(lines) : lines[i].key = k].val]

\* content.match( /\+\+\+([\s\S]*)\+\+\+/g ): the greedy match runs from the
\* first marker to the last one; null when there are not two markers
MarkerPositions(content) ==
    {i \in 1..Len(content) : content[i].kind = "marker"}

RegexMatches(content) == Cardinality(MarkerPositions(content)) >= 2

RegexMatch(content) ==
    LET ms == MarkerPositions(content)
        first == CHOOSE i \in ms : \A j \in ms : i <= j
        last == CHOOSE i \in ms : \A j \in ms : j <= i
    IN  SubSeq(content, first, last)

\* result[ 0 ].replace( /\+\+\+/g, "" )
StripMarkers(chunks) == SelectSeq(chunks, LAMBDA c : c.kind # "marker")

RECURSIVE JoinLines(_)
JoinLines(chunks) ==
    IF chunks = <<>> THEN <<>>
    ELSE Head(chunks).lines \o JoinLines(Tail(chunks))

\* whether toml.parse takes the stripped match, and the object it gives
FrontMatterParses(content) ==
    LET text == StripMarkers(RegexMatch(content))
    IN  /\ \A i \in 1..Len(text) : text[i].kind = "toml"
        /\ TomlParses(JoinLines(text))

FrontMatter(content) == TomlParse(JoinLines(StripMarkers(RegexMatch(content))))

\* the hashtag test without the test: every parsed document is pushed
HasHashtagsAlways(tomlObject) == TRUE

\* tomlObject.hashtags !== undefined
HasHashtags(tomlObject) == "hashtags" \in DOMAIN tomlObject

\* getAlbumDetails over the documents fast-glob found, in its order
RECURSIVE GetAlbumDetails(_, _, _)
GetAlbumDetails(files, found, albumDetails) ==
    IF found = <<>> THEN [ok |-> TRUE, albums |-> albumDetails]
    ELSE LET albumIndex == Head(found)
             content == files[IndexFile(albumIndex)]
         IN  IF ~RegexMatches(content)
             THEN GetAlbumDetails(files, Tail(found), albumDetails)
             ELSE IF ~FrontMatterParses(content)
             THEN [ok |-> FALSE, albums |-> albumDetails]
             ELSE IF HasHashtags(FrontMatter(content))
             THEN GetAlbumDetails(files, Tail(found),
                      Append(albumDetails,
                             AnnotateAlbum(FrontMatter(content), albumIndex)))
             ELSE GetAlbumDetails(files, Tail(found), albumDetails)

\* const albumDetails = await this.getAlbumDetails()
DoGetAlbumDetails ==
    /\ pc = "start"
    /\ LET r == GetAlbumDetails(fs, arg.found, <<>>)
       IN  IF r.ok
           THEN /\ albumList' = r.albums
                /\ pc' = "new"
                /\ err' = err
           ELSE /\ albumList' = albumList
                /\ pc' = "failed"
                /\ err' = [kind |-> "TomlError", op |-> "getAlbumDetails"]
    /\ UNCHANGED <<photoList, zone, importList, fs, dirs, importCache,
                   exiftoolEnded, ai, pj, cur, cached, runs, tagWrites,
                   runTags, copyLog, startCache, halted>>
    /\ UNCHANGED pagesVars

\* the keys of newMetadata, in the order the object literal lists them
MetadataKeys == <<"title", "date", "subtitle", "description", "hashtags">>

\* const newMetadata = { title: album.title, date: album.date, ... }
NewMetadata(album) ==
    LET ks == SelectSeq(MetadataKeys, LAMBDA k : k \in DOMAIN album)
    IN  [i \in 1..Len(ks) |-> [key |-> ks[i], val |-> album[ks[i]]]]

\* `+++\n${toml.stringify( newMetadata )}+++\n`
NewFrontMatter(album) ==
    <<Marker, TomlChunk(TomlStringify(NewMetadata(album))), Marker>>

\* album.updated !== undefined
IsUpdated(album) == album.updated = TRUE

\* the backup taken of the new block instead of the document
BackupIndexAfterWrite(files, album) ==
    WriteFile(files, OldPath(album.indexPath), NewFrontMatter(album))

\* await fs.copyFile( album.indexPath, album.indexPath + ".old" )
BackupIndex(files, album) ==
    CopyFile(files, IndexFile(album.indexPath), OldPath(album.indexPath))

\* the write left out
WriteIndexSkipped(files, album) == files

\* await fs.writeFile( album.indexPath, newFrontMatter )
WriteIndex(files, album) ==
    WriteFile(files, IndexFile(album.indexPath), NewFrontMatter(album))

IndexError == [kind |-> "FsError", op |-> "updateIndexFiles"]

\* updateIndexFiles( albumDetails ) is called
UpdateIndexFilesCall ==
    /\ pc = "detailed"
    /\ pc' = "index"
    /\ xi' = 1
    /\ fsBefore' = fs
    /\ UNCHANGED <<photoList, albumList, zone, importList, fs, dirs,
                   importCache, exiftoolEnded, ai, pj, cur, cached, err, runs,
                   tagWrites, runTags, copyLog, startCache, halted, arg, ret,
                   albumPhotoMap, gallery, mi>>

\* an album that is not flagged is passed over
IndexSkip ==
    /\ pc = "index"
    /\ xi <= Len(albumList)
    /\ ~IsUpdated(albumList[xi])
    /\ xi' = xi + 1
    /\ UNCHANGED <<photoList, albumList, zone, importList, fs, dirs,
                   importCache, exiftoolEnded, pc, ai, pj, cur, cached, err,
                   runs, tagWrites, runTags, copyLog, startCache, halted, arg,
                   ret, fsBefore, albumPhotoMap, gallery, mi>>

\* the copy to ".old" of a flagged album
IndexBackup ==
    /\ pc = "index"
    /\ xi <= Len(albumList)
    /\ IsUpdated(albumList[xi])
    /\ fs' = BackupIndex(fs, albumList[xi])
    /\ pc' = "index-write"
    /\ UNCHANGED <<photoList, albumList, zone, importList, dirs,
                   importCache, exiftoolEnded, ai, pj, cur, cached, err,
                   runs, tagWrites, runTags, copyLog, startCache, halted, arg,
                   ret, xi, fsBefore, albumPhotoMap, gallery, mi>>

\* fs.copyFile rejects: updateIndexFiles rejects with the same error
IndexBackupFails ==
    /\ pc = "index"
    /\ xi <= Len(albumList)
    /\ IsUpdated(albumList[xi])
    /\ pc' = "failed"
    /\ err' = IndexError
    /\ UNCHANGED <<photoList, albumList, zone, importList, fs, dirs,
                   importCache, exiftoolEnded, ai, pj, cur, cached,
                   runs, tagWrites, runTags, copyLog, startCache, halted, arg,
                   ret, xi, fsBefore, albumPhotoMap, gallery, mi>>

\* the overwrite of the index document of a flagged album
IndexWrite ==
    /\ pc = "index-write"
    /\ fs' = WriteIndex(fs, albumList[xi])
    /\ xi' = xi + 1
    /\ pc' = "index"
    /\ UNCHANGED <<photoList, albumList, zone, importList, dirs,
                   importCache, exiftoolEnded, ai, pj, cur, cached, err,
                   runs, tagWrites, runTags, copyLog, startCache, halted, arg,
                   ret, fsBefore, albumPhotoMap, gallery, mi>>

\* fs.writeFile rejects: updateIndexFiles rejects with the same error
IndexWriteFails ==
    /\ pc = "index-write"
    /\ pc' = "failed"
    /\ err' = IndexError
    /\ UNCHANGED <<photoList, albumList, zone, importList, fs, dirs,
                   importCache, exiftoolEnded, ai, pj, cur, cached,
                   runs, tagWrites, runTags, copyLog, startCache, halted, arg,
                   ret, xi, fsBefore, albumPhotoMap, gallery, mi>>

\* the loop is over: updateIndexFiles resolves
UpdateIndexFilesReturn ==
    /\ pc = "index"
    /\ xi > Len(albumList)
    /\ pc' = "indexed"
    /\ UNCHANGED <<photoList, albumList, zone, importList, fs, dirs,
                   importCache, exiftoolEnded, ai, pj, cur, cached, err,
                   runs, tagWrites, runTags, copyLog, startCache, halted, arg,
                   ret, xi, fsBefore, albumPhotoMap, gallery, mi>>

----------------------------------------------------------------------------
(* The index documents of a content directory *)

\* the lines of a front matter block; an album's block has a hashtag list
PageLines(day) ==
    <<[key |-> "title", val |-> <<"t">>],
      [key |-> "date", val |-> day],
      [key |-> "subtitle", val |-> <<"s">>],
      [key |-> "description", val |-> <<"d">>]>>

AlbumLines(day, hashtags) ==
    PageLines(day) \o <<[key |-> "hashtags", val |-> hashtags],
                        [key |-> "weight", val |-> 1]>>

\* documents: no front matter, a page, an album, and documents whose body
\* holds a further marker
IndexDocs ==
    {<<TextChunk>>,
     <<Marker, TomlChunk(PageLines(0)), Marker, TextChunk>>,
     <<Marker, TomlChunk(AlbumLines(0, << <<"a">> >>)), Marker, TextChunk>>,
     <<Marker, TomlChunk(AlbumLines(0, << <<"b">> >>)), Marker, TextChunk>>,
     <<Marker, TomlChunk(AlbumLines(0, << <<"a">> >>)), Marker, TextChunk, Marker>>,
     <<Marker, TomlChunk(PageLines(0)), Marker,
       TomlChunk(<<[key |-> "hashtags", val |-> << <<"b">> >>]>>), Marker>>}

\* what an earlier run left as a backup
StaleBackup == <<TextChunk>>

\* the traversal orders of fast-glob over the three documents
FoundOrders ==
    {f \in [1..3 -> AlbumIndexes] : \A i, j \in 1..3 : f[i] = f[j] => i = j}

IndexTitles == {<<"a">>, <<"b">>}
IndexStamps == {TicksPerDay + 1}

InitIndex ==
    \E photos \in PhotoListsOf(IndexTitles, IndexStamps),
       found \in FoundOrders,
       docs \in [1..3 -> IndexDocs],
       stale \in BOOLEAN :
        LET photoFiles == {PhotoPath(photos[i]) : i \in 1..Len(photos)}
            indexFiles == {IndexFile(found[i]) : i \in 1..3}
            oldFiles == IF stale THEN {OldPath(found[1])} ELSE {}
        IN  /\ photoList = photos
            /\ albumList = <<>>
            /\ zone = 0
            /\ importList = <<>>
            /\ fs = [p \in photoFiles \cup indexFiles \cup oldFiles |->
                        IF p \in photoFiles
                        THEN Untagged(CHOOSE ph \in {photos[i] : i \in 1..Len(photos)} :
                                         PhotoPath(ph) = p)
                        ELSE IF p \in oldFiles THEN StaleBackup
                        ELSE docs[CHOOSE i \in 1..3 : IndexFile(found[i]) = p]]
            /\ dirs = {Dirname(found[i]) : i \in 1..3}
            /\ importCache = <<>>
            /\ exiftoolEnded = FALSE
            /\ pc = "start"
            /\ ai = 1
            /\ pj = 1
            /\ cur = "none"
            /\ cached = FALSE
            /\ err = NoError
            /\ runs = 0
            /\ tagWrites = [k \in {photos[i].uri : i \in 1..Len(photos)} |-> 0]
            /\ runTags = [k \in {photos[i].uri : i \in 1..Len(photos)} |-> 0]
            /\ copyLog = <<>>
            /\ startCache = {}
            /\ halted = {}
            /\ arg = [found |-> found]
            /\ ret = "none"
            /\ xi = 1
            /\ fsBefore = fs
            /\ albumPhotoMap = <<>>
            /\ gallery = <<>>
            /\ mi = 1

NextIndex ==
    \/ DoGetAlbumDetails
    \/ DoBuildImportList
    \/ DoUpdateAlbumDetails
    \/ UpdateIndexFilesCall
    \/ IndexSkip
    \/ IndexBackup
    \/ IndexBackupFails
    \/ IndexWrite
    \/ IndexWriteFails
    \/ UpdateIndexFilesReturn

SpecIndex == InitIndex /\ [][NextIndex]_vars

----------------------------------------------------------------------------
(* updateIndexFiles: backup, rewrite, failure *)

IndexStarted ==
    \/ pc \in {"index", "index-write", "indexed"}
    \/ pc = "failed" /\ err = IndexError

\* the block the claim describes: the five fields of the album record, in
\* order, between two markers
FiveFieldBlock(album) ==
    <<Marker,
      TomlChunk(<<[key |-> "title", val |-> album.title],
                  [key |-> "date", val |-> album.date],
                  [key |-> "subtitle", val |-> album.subtitle],
                  [key |-> "description", val |-> album.description],
                  [key |-> "hashtags", val |-> album.hashtags]>>),
      Marker>>

SameAsBefore(p) ==
    /\ (p \in DOMAIN fs) = (p \in DOMAIN fsBefore)
    /\ p \in DOMAIN fs => fs[p] = fsBefore[p]

\* C11: while and after updateIndexFiles runs, every flagged album it has
\* handled has ".old" holding the document as it was before the call and the
\* index holding only the five-field block; a document that differs from what
\* it was has its backup already (the copy comes first); the documents of
\* albums that are not flagged, and their backups, are as they were.
C11_BackupThenRewrite ==
    IndexStarted =>
        \A a \in 1..Len(albumList) :
            LET album == albumList[a]
                index == IndexFile(album.indexPath)
                old == OldPath(album.indexPath)
            IN  /\ (IsUpdated(album) /\ a < xi) =>
                       /\ old \in DOMAIN fs
                       /\ fs[old] = fsBefore[index]
                       /\ fs[index] = FiveFieldBlock(album)
                /\ (IsUpdated(album) /\ fs[index] # fsBefore[index]) =>
                       /\ old \in DOMAIN fs
                       /\ fs[old] = fsBefore[index]
                /\ ~IsUpdated(album) => SameAsBefore(index) /\ SameAsBefore(old)

\* updateIndexFiles has returned, having rewritten a flagged album over a
\* stale backup and passed over an album that is not flagged
C11_Witness ==
    /\ pc = "indexed"
    /\ \E a, b \in 1..Len(albumList) :
        /\ IsUpdated(albumList[a])
        /\ ~IsUpdated(albumList[b])
        /\ OldPath(albumList[a].indexPath) \in DOMAIN fsBefore
        /\ fs[IndexFile(albumList[a].indexPath)]
               # fsBefore[IndexFile(albumList[a].indexPath)]

\* C12: when updateIndexFiles has failed at an album, every flagged album
\* before it is rewritten and backed up and every album after it is as it was.
C12_FailureKeepsPrefix ==
    (pc = "failed" /\ err = IndexError) =>
        \A a \in 1..Len(albumList) :
            LET album == albumList[a]
                index == IndexFile(album.indexPath)
                old == OldPath(album.indexPath)
            IN  /\ (IsUpdated(album) /\ a < xi) =>
                       /\ fs[index] = NewFrontMatter(album)
                       /\ fs[index] # fsBefore[index]
                       /\ old \in DOMAIN fs
                /\ a > xi => SameAsBefore(index) /\ SameAsBefore(old)

\* the failure came at the second of three flagged albums
C12_Witness ==
    /\ pc = "failed"
    /\ err = IndexError
    /\ xi = 2
    /\ Len(albumList) = 3
    /\ \A a \in 1..3 : IsUpdated(albumList[a])

----------------------------------------------------------------------------
(* getAlbumDetails: which documents become album records *)

\* a "hashtags" line stands between two markers of the document
DeclaresHashtags(content) ==
    \E i, j, k \in 1..Len(content) :
        /\ i < j /\ j < k
        /\ content[i].kind = "marker"
        /\ content[k].kind = "marker"
        /\ \E l \in 1..Len(content[j].lines) : content[j].lines[l].key = "hashtags"

RECURSIVE AlbumDocuments(_)
AlbumDocuments(found) ==
    IF found = <<>> THEN <<>>
    ELSE IF DeclaresHashtags(fs[IndexFile(Head(found))])
         THEN <<Head(found)>> \o AlbumDocuments(Tail(found))
         ELSE AlbumDocuments(Tail(found))

\* C20: when getAlbumDetails returns, its records are, in traversal order, the
\* index documents whose front matter has a hashtag list, one record each and
\* none for the other documents; every record carries the document's path as
\* indexPath, its directory as albumPath and that directory's base name as
\* albumKey.
C20_OneRecordPerHashtagDocument ==
    pc = "new" =>
        LET expected == AlbumDocuments(arg.found)
        IN  /\ Len(albumList) = Len(expected)
            /\ \A i \in 1..Len(albumList) :
                /\ albumList[i].indexPath = expected[i]
                /\ albumList[i].albumPath = Dirname(expected[i])
                /\ albumList[i].albumKey = Basename(albumList[i].albumPath)
                /\ albumList[i].hashtags = FrontMatter(fs[IndexFile(expected[i])]).hashtags

\* getAlbumDetails returned one record, having met a document without front
\* matter and a page without a hashtag list
C20_Witness ==
    /\ pc = "new"
    /\ Len(albumList) = 1
    /\ \E i, j \in 1..3 :
        /\ ~RegexMatches(fs[IndexFile(arg.found[i])])
        /\ RegexMatches(fs[IndexFile(arg.found[j])])
        /\ ~DeclaresHashtags(fs[IndexFile(arg.found[j])])

----------------------------------------------------------------------------
(* filterPhotoList *)

\* the comparison made strict
OnOrAfterStrict(takenDateTime, filterDateTime) == takenDateTime > filterDateTime

\* takenDateTime >= filterDateTime
OnOrAfter(takenDateTime, filterDateTime) == takenDateTime >= filterDateTime

\* an afterDate string: a calendar date, or a string luxon finds invalid
ISODate(day) == [valid |-> TRUE, day |-> day]
InvalidDate == [valid |-> FALSE, day |-> 0]

\* the loop of filterPhotoList
RECURSIVE FilterLoop(_, _, _)
FilterLoop(photos, filterDateTime, filteredList) ==
    IF photos = <<>> THEN filteredList
    ELSE LET photo == Head(photos)
             takenDateTime == FromSeconds(photo.creation_timestamp)
         IN  FilterLoop(Tail(photos), filterDateTime,
                        IF OnOrAfter(takenDateTime, filterDateTime)
                        THEN Append(filteredList, photo)
                        ELSE filteredList)

\* filterPhotoList( photoList, afterDate ) for a valid date
FilterPhotoList(photos, afterDate) ==
    FilterLoop(photos, FromISO(afterDate.day), <<>>)

\* filterPhotoList is called on the export's photo list
DoFilterPhotoList ==
    /\ pc = "new"
    /\ IF arg.afterDate.valid
       THEN /\ ret' = FilterPhotoList(photoList, arg.afterDate)
            /\ pc' = "returned"
            /\ err' = err
       ELSE /\ ret' = ret
            /\ pc' = "failed"
            /\ err' = [kind |-> "TypeError", op |-> "filterPhotoList"]
    /\ UNCHANGED <<photoList, albumList, zone, importList, fs, dirs,
                   importCache, exiftoolEnded, ai, pj, cur, cached, runs,
                   tagWrites, runTags, copyLog, startCache, halted, arg, xi,
                   fsBefore, albumPhotoMap, gallery, mi>>

\* exports of up to two photos, filter dates in range and an invalid one
FilterPhotoLists ==
    {<<>>} \cup {<<Photo(1, <<"a">>, s)>> : s \in Stamps}
           \cup PhotoListsOf({<<"a">>}, Stamps)

FilterDates == {ISODate(d) : d \in 0..MaxDay} \cup {InvalidDate}

InitFilter ==
    \E photos \in FilterPhotoLists, afterDate \in FilterDates, z \in Zones :
        InitCall(photos, <<>>, z, [photoList |-> photos, afterDate |-> afterDate])

NextFilter == DoFilterPhotoList

SpecFilter == InitFilter /\ [][NextFilter]_vars

\* the positions of the photos taken on or after the filter instant, and the
\* k-th of them
KeptPositions ==
    {i \in 1..Len(arg.photoList) :
        arg.photoList[i].creation_timestamp >= arg.afterDate.day * TicksPerDay - zone}

KthKept(k) ==
    CHOOSE i \in KeptPositions : Cardinality({j \in KeptPositions : j < i}) = k - 1

\* C13: filterPhotoList returns the photos whose capture timestamp is on or
\* after the filter instant (local midnight of the filter date), in their
\* original order; a photo taken at that instant is kept, one taken one unit
\* of the timestamp earlier is not; the list passed in is as it was.
C13_FilterKeepsOnOrAfter ==
    pc = "returned" =>
        /\ Len(ret) = Cardinality(KeptPositions)
        /\ \A k \in 1..Len(ret) : ret[k] = arg.photoList[KthKept(k)]
        /\ \A i \in 1..Len(arg.photoList) :
            LET photo == arg.photoList[i]
                kept == \E k \in 1..Len(ret) : ret[k] = photo
            IN  /\ photo.creation_timestamp = FromISO(arg.afterDate.day) => kept
                /\ photo.creation_timestamp = FromISO(arg.afterDate.day) - 1 => ~kept
        /\ photoList = arg.photoList

\* a list with a photo taken at the filter instant and one taken just before
C13_Witness ==
    /\ pc = "returned"
    /\ Len(arg.photoList) = 2
    /\ arg.photoList[1].creation_timestamp = FromISO(arg.afterDate.day) - 1
    /\ arg.photoList[2].creation_timestamp = FromISO(arg.afterDate.day)
    /\ ret = <<arg.photoList[2]>>

----------------------------------------------------------------------------
(* Utils.getTags *)

MaxTextLen == 4

\* the characters of a text: the marker, two word characters, a blank
Hash == "#"
WordChars == {"a", "_"}
TextAlphabet == {Hash, " "} \cup WordChars

\* the end of the run of characters of the set S that starts at position i
\* (i - 1 when text[i] is not in S)
RECURSIVE RunEnd(_, _, _)
RunEnd(text, i, S) ==
    IF i <= Len(text) /\ text[i] \in S THEN RunEnd(text, i + 1, S) ELSE i - 1

\* the tag pushed is the word whatever stripHash says
PushTagStripped(text, from, word, to, stripHash) == SubSeq(text, word, to)

\* tags.push( match[ 1 ] ) when stripHash === true, tags.push( match[ 0 ] ) else
PushTag(text, from, word, to, stripHash) ==
    IF stripHash = TRUE THEN SubSeq(text, word, to) ELSE SubSeq(text, from, to)

\* text.matchAll( /#+([a-zA-Z0-9_]+)/g ), scanning from position i: a match is
\* a run of markers followed by a run of word characters
RECURSIVE MatchAll(_, _, _)
MatchAll(text, i, stripHash) ==
    IF i > Len(text) THEN <<>>
    ELSE IF text[i] # Hash THEN MatchAll(text, i + 1, stripHash)
    ELSE LET word == RunEnd(text, i, {Hash}) + 1
             to == RunEnd(text, word, WordChars)
         IN  IF to < word
             THEN MatchAll(text, i + 1, stripHash)
             ELSE <<PushTag(text, i, word, to, stripHash)>>
                      \o MatchAll(text, to + 1, stripHash)

\* Utils.getTags( text, stripHash ) for a text that passes the checks
GetTags(text, stripHash) == MatchAll(text, 1, stripHash)

\* !text: the empty string is refused like a missing argument
TextRefused(text) == text = <<>>

\* getTags is called on the text in a mode it was not called in yet; the
\* results are kept by mode
DoGetTags ==
    /\ pc \in {"new", "returned"}
    /\ \E stripHash \in BOOLEAN :
        LET results == IF pc = "new" THEN <<>> ELSE ret
        IN  /\ ~MapHas(results, stripHash)
            /\ IF TextRefused(arg.text)
               THEN /\ ret' = ret
                    /\ pc' = "failed"
                    /\ err' = [kind |-> "TypeError", op |-> "getTags"]
               ELSE /\ ret' = MapSet(results, stripHash, GetTags(arg.text, stripHash))
                    /\ pc' = "returned"
                    /\ err' = err
    /\ UNCHANGED <<photoList, albumList, zone, importList, fs, dirs,
                   importCache, exiftoolEnded, ai, pj, cur, cached, runs,
                   tagWrites, runTags, copyLog, startCache, halted, arg, xi,
                   fsBefore, albumPhotoMap, gallery, mi>>

InitTags ==
    \E text \in SeqsUpTo(TextAlphabet, MaxTextLen) :
        InitCall(<<>>, <<>>, 0, [text |-> text])

NextTags == DoGetTags

SpecTags == InitTags /\ [][NextTags]_vars

\* the positions where a word follows a marker, the k-th of them, the end of
\* the word and the start of the run of markers before it
WordStarts ==
    {j \in 2..Len(arg.text) : arg.text[j] \in WordChars /\ arg.text[j - 1] = Hash}

KthWord(k) ==
    CHOOSE j \in WordStarts : Cardinality({m \in WordStarts : m < j}) = k - 1

WordEnd(j) ==
    CHOOSE k \in j..Len(arg.text) :
        /\ \A m \in j..k : arg.text[m] \in WordChars
        /\ k = Len(arg.text) \/ arg.text[k + 1] \notin WordChars

MarkersStart(j) ==
    CHOOSE i \in 1..(j - 1) :
        /\ \A m \in i..(j - 1) : arg.text[m] = Hash
        /\ i = 1 \/ arg.text[i - 1] # Hash

BothModes == pc = "returned" /\ MapHas(ret, TRUE) /\ MapHas(ret, FALSE)

\* C16 as stated: the token of one mode is the token of the other with one
\* marker put in front, and a text without a marker gives the empty sequence.
C16_OneMarkerAdded ==
    /\ BothModes =>
        /\ Len(MapGet(ret, TRUE)) = Len(MapGet(ret, FALSE))
        /\ \A n \in 1..Len(MapGet(ret, TRUE)) :
            MapGet(ret, FALSE)[n] = <<Hash>> \o MapGet(ret, TRUE)[n]
    /\ (\A i \in 1..Len(arg.text) : arg.text[i] # Hash) => pc # "failed"

\* C16: getTags refuses the empty text with a TypeError; for any other text it
\* returns, in order of appearance, one token for every word that follows a
\* marker: the word itself when stripHash is true, the word with the whole run
\* of markers before it when stripHash is false; so both modes return the same
\* number of tokens, and a text without a marker gives the empty sequence.
C16_TokensByMode ==
    /\ pc = "failed" <=> (arg.text = <<>> /\ err.op = "getTags")
    /\ pc = "returned" =>
        \A e \in 1..Len(ret) :
            LET tags == ret[e].val
            IN  /\ Len(tags) = Cardinality(WordStarts)
                /\ \A n \in 1..Len(tags) :
                    LET j == KthWord(n)
                    IN  tags[n] = SubSeq(arg.text,
                                         IF ret[e].key THEN j ELSE MarkersStart(j),
                                         WordEnd(j))
    /\ BothModes =>
        /\ Len(MapGet(ret, TRUE)) = Len(MapGet(ret, FALSE))
        /\ \A n \in 1..Len(MapGet(ret, TRUE)) :
            \E h \in 1..Len(arg.text) :
                MapGet(ret, FALSE)[n] = [m \in 1..h |-> Hash] \o MapGet(ret, TRUE)[n]

\* both modes were called on a text with a word after two markers
C16_Witness ==
    /\ BothModes
    /\ \E n \in 1..Len(MapGet(ret, TRUE)) :
        Len(MapGet(ret, FALSE)[n]) > Len(MapGet(ret, TRUE)[n]) + 1

----------------------------------------------------------------------------
(* PhotoPages.getPhotoName *)

\* the widths of /\d{8}-\d{6}/
DateDigits == 8
TimeDigits == 6

Digits == {"0", "1", "2", "3", "4", "5", "6", "7", "8", "9"}
Dash == "-"
JpgExt == <<".", "j", "p", "g">>

\* what stands for the null getPhotoName returns: no file name is equal to it
Null == <<"null">>

\* a photo file: the directory it is in and its file name, character by character
PhotoFile(dir, name) == [dir |-> dir, name |-> name]

\* path.basename( photoFileName, ".jpg" )
BasenameWithout(file, ext) ==
    LET name == file.name
        n == Len(name) - Len(ext)
    IN  IF n > 0 /\ SubSeq(name, n + 1, Len(name)) = ext
        THEN SubSeq(name, 1, n)
        ELSE name

\* the pattern with any character accepted in the place of the dash
MatchesAtAnySeparator(s, i) ==
    /\ i + DateDigits + TimeDigits <= Len(s)
    /\ \A m \in 0..(DateDigits - 1) : s[i + m] \in Digits
    /\ \A m \in 1..TimeDigits : s[i + DateDigits + m] \in Digits

\* /\d{8}-\d{6}/ matches s at position i
MatchesAt(s, i) ==
    /\ i + DateDigits + TimeDigits <= Len(s)
    /\ \A m \in 0..(DateDigits - 1) : s[i + m] \in Digits
    /\ s[i + DateDigits] = Dash
    /\ \A m \in 1..TimeDigits : s[i + DateDigits + m] \in Digits

\* regExp.exec( fileName ): the leftmost match, or null
RegExpExec(s) ==
    LET starts == {i \in 1..Len(s) : MatchesAt(s, i)}
    IN  IF starts = {} THEN Null
        ELSE LET i == CHOOSE x \in starts : \A y \in starts : x <= y
             IN  SubSeq(s, i, i + DateDigits + TimeDigits)

\* getPhotoName( photoFileName )
GetPhotoName(photoFileName) == RegExpExec(BasenameWithout(photoFileName, JpgExt))

\* getPhotoName is called on a file name
DoGetPhotoName ==
    /\ pc = "new"
    /\ ret' = GetPhotoName(arg.photoFileName)
    /\ pc' = "returned"
    /\ UNCHANGED <<photoList, albumList, zone, importList, fs, dirs,
                   importCache, exiftoolEnded, ai, pj, cur, cached, err, runs,
                   tagWrites, runTags, copyLog, startCache, halted, arg, xi,
                   fsBefore, albumPhotoMap, gallery, mi>>

\* file names: a date part, a separator, a time part, between a prefix and a
\* suffix; each part intact, a digit short, or with a letter in one place
DatePart == <<"2", "0", "2", "0", "0", "6", "2", "8">>
TimePart == <<"0", "0", "5", "0", "1", "7">>
OtherKey == <<"2", "0", "1", "9", "0", "1", "0", "1", "-", "1", "2", "0", "0", "0", "0">>

Spoilt(part) ==
    {part, SubSeq(part, 1, Len(part) - 1)}
        \cup {[part EXCEPT ![p] = "a"] : p \in 1..Len(part)}

NamePrefixes == {<<>>, <<"x">>, <<"1">>, OtherKey \o <<"_">>}
NameSuffixes == {<<>>, <<"9">>, <<"+", "0", "0", "0", "0", "-", "i", "g">>}

PhotoFileNames ==
    {PhotoFile(<<"content", "albums", "k1">>, pre \o d \o <<sep>> \o t \o suf \o JpgExt) :
        pre \in NamePrefixes, d \in Spoilt(DatePart), sep \in {Dash, "+"},
        t \in Spoilt(TimePart), suf \in NameSuffixes}

InitName ==
    \E photoFileName \in PhotoFileNames :
        InitCall(<<>>, <<>>, 0, [photoFileName |-> photoFileName])

NextName == DoGetPhotoName

SpecName == InitName /\ [][NextName]_vars

\* eight digits, a dash, six digits
HasKeyFormat(key) ==
    /\ Len(key) = 15
    /\ \A m \in 1..8 : key[m] \in Digits
    /\ key[9] = "-"
    /\ \A m \in 10..15 : key[m] \in Digits

\* the base name: the file name without its ".jpg"
BaseNameOf(file) == SubSeq(file.name, 1, Len(file.name) - 4)

KeysIn(s) == {SubSeq(s, i, i + 14) : i \in 1..(Len(s) - 14)}

\* C17: getPhotoName returns (it never throws for a file name) a token of
\* eight digits, a dash and six digits that stands in the base name, and null
\* exactly when the base name holds no such token.
C17_KeyOrNull ==
    /\ pc # "failed"
    /\ pc = "returned" =>
        LET tokens == {k \in KeysIn(BaseNameOf(arg.photoFileName)) : HasKeyFormat(k)}
        IN  /\ ret = Null <=> tokens = {}
            /\ ret # Null => ret \in tokens

\* null was returned for a name that has a letter in its date and is
\* otherwise well formed
C17_Witness ==
    /\ pc = "returned"
    /\ ret = Null
    /\ \E p \in 1..8 :
        arg.photoFileName.name =
            [DatePart EXCEPT ![p] = "a"] \o <<"-">> \o TimePart
                \o <<"+", "0", "0", "0", "0", "-", "i", "g">> \o JpgExt

----------------------------------------------------------------------------
(* PhotoPages.getExifData and buildTomlFrontMatter *)

\* what Exifr.parse finds in a photo file: nothing at all, or tags of which
\* ImageDescription and CreateDate may each be undefined
NoExif ==
    [exif |-> FALSE, hasDescription |-> FALSE, ImageDescription |-> <<>>,
     hasDate |-> FALSE, CreateDate |-> 0]

Exif(hasDescription, description, hasDate, date) ==
    [exif |-> TRUE, hasDescription |-> hasDescription,
     ImageDescription |-> description, hasDate |-> hasDate, CreateDate |-> date]

\* tags.CreateDate.toISOString().substring( 0, 10 ): the UTC day, as a string
\* of one symbol
ISODateString(instant) == <<instant \div TicksPerDay>>

\* the tags taken with their markers
DescriptionTagsWithMarkers(description) == GetTags(description, FALSE)

\* this.getTags( tags.ImageDescription ): stripHash defaults to true
DescriptionTags(description) == GetTags(description, TRUE)

\* whether the try block of getExifData throws: Exifr.parse gave nothing, or
\* getTags refuses the description
ExifDataThrows(fileData) ==
    \/ ~fileData.exif
    \/ fileData.hasDescription /\ TextRefused(fileData.ImageDescription)

\* getExifData( photoFilePath ): the tag Map, in insertion order
GetExifData(photoFilePath, fileData) ==
    LET m0 == MapSet(MapSet(MapSet(<<>>, "title", <<>>), "date", <<>>),
                     "albumname", <<>>)
        m1 == IF fileData.hasDescription
              THEN MapSet(MapSet(m0, "title", fileData.ImageDescription),
                          "tags", DescriptionTags(fileData.ImageDescription))
              ELSE m0
        m2 == IF fileData.hasDate
              THEN MapSet(m1, "date", ISODateString(fileData.CreateDate))
              ELSE m1
    IN  MapSet(m2, "albumname", Basename(photoFilePath.dir))

\* `+++\n${toml.stringify( Object.fromEntries( tagMap.entries() ) )}+++\n`
BuildTomlFrontMatter(tagMap) ==
    <<Marker, TomlChunk(TomlStringify(tagMap)), Marker>>

ExifError == [kind |-> "Error", op |-> "getExifData"]

\* getExifData is called on the photo file
DoGetExifData ==
    /\ pc = "new"
    /\ IF ExifDataThrows(arg.fileData)
       THEN /\ ret' = ret
            /\ pc' = "failed"
            /\ err' = ExifError
       ELSE /\ ret' = GetExifData(arg.photoFilePath, arg.fileData)
            /\ pc' = "exif"
            /\ err' = err
    /\ UNCHANGED <<photoList, albumList, zone, importList, fs, dirs,
                   importCache, exiftoolEnded, ai, pj, cur, cached, runs,
                   tagWrites, runTags, copyLog, startCache, halted, arg, xi,
                   fsBefore, albumPhotoMap, gallery, mi>>

\* buildTomlFrontMatter is called on the tag Map
DoBuildTomlFrontMatter ==
    /\ pc = "exif"
    /\ ret' = BuildTomlFrontMatter(ret)
    /\ pc' = "returned"
    /\ UNCHANGED <<photoList, albumList, zone, importList, fs, dirs,
                   importCache, exiftoolEnded, ai, pj, cur, cached, err, runs,
                   tagWrites, runTags, copyLog, startCache, halted, arg, xi,
                   fsBefore, albumPhotoMap, gallery, mi>>

\* photo files of two albums, with every description up to MaxTextLen
ExifDatas ==
    {NoExif} \cup
    {Exif(hd, IF hd THEN d ELSE <<>>, hdate, IF hdate THEN TicksPerDay ELSE 0) :
        hd \in BOOLEAN, d \in SeqsUpTo(TextAlphabet, MaxTextLen),
        hdate \in BOOLEAN}

InitToml ==
    \E album \in {"k1", "k2"}, fileData \in ExifDatas :
        InitCall(<<>>, <<>>, 0,
                 [photoFilePath |->
                      PhotoFile(<<"content", "albums", album>>,
                                DatePart \o <<"-">> \o TimePart \o JpgExt),
                  fileData |-> fileData])

NextToml == DoGetExifData \/ DoBuildTomlFrontMatter

SpecToml == InitToml /\ [][NextToml]_vars

\* the block starts and ends with a marker and holds title, date, albumname
\* first, in that order
ThreeEntriesFirst(block) ==
    /\ Len(block) = 3
    /\ block[1] = Marker
    /\ block[3] = Marker
    /\ block[2].kind = "toml"
    /\ Len(block[2].lines) >= 3
    /\ block[2].lines[1].key = "title"
    /\ block[2].lines[2].key = "date"
    /\ block[2].lines[3].key = "albumname"

TagsEntryFollows(block, tags) ==
    /\ Len(block[2].lines) = 4
    /\ block[2].lines[4].key = "tags"
    /\ block[2].lines[4].val = tags

WordsAfterMarkers(description) == GetTags(description, TRUE)

\* C15 as stated: a tags entry follows the three entries when the description
\* contains hashtags, and the block is exactly the three entries when it
\* contains none.
C15_TagsOnlyWithHashtags ==
    pc = "returned" =>
        /\ ThreeEntriesFirst(ret)
        /\ IF arg.fileData.hasDescription
              /\ WordsAfterMarkers(arg.fileData.ImageDescription) # <<>>
           THEN TagsEntryFollows(ret, WordsAfterMarkers(arg.fileData.ImageDescription))
           ELSE Len(ret[2].lines) = 3

\* C15: the block starts with a marker line and ends with one, with title,
\* date, albumname in that order; a tags entry follows whenever the photo has
\* a description, holding its hashtags without markers (the empty array when
\* it has none); without a description the block is exactly the three entries;
\* an empty description makes getExifData fail.
C15_TagsWithDescription ==
    /\ pc = "returned" =>
        /\ ThreeEntriesFirst(ret)
        /\ IF arg.fileData.hasDescription
           THEN TagsEntryFollows(ret, WordsAfterMarkers(arg.fileData.ImageDescription))
           ELSE Len(ret[2].lines) = 3
    /\ (arg.fileData.hasDescription /\ arg.fileData.ImageDescription = <<>>) =>
           pc \in {"new", "failed"}

\* the block of a photo whose description has no hashtag: four entries, the
\* last an empty tags array
C15_Witness ==
    /\ pc = "returned"
    /\ arg.fileData.hasDescription
    /\ \A i \in 1..Len(arg.fileData.ImageDescription) :
        arg.fileData.ImageDescription[i] # Hash
    /\ Len(ret[2].lines) = 4
    /\ ret[2].lines[4].val = <<>>

----------------------------------------------------------------------------
(* PhotoPages: buildAlbumMap, filterAlbumPhotos, copyAlbumPhotos *)

\* Map.delete
MapDelete(map, key) == SelectSeq(map, LAMBDA e : e.key # key)

\* the set made only for a key the Map does not hold yet
RECURSIVE BuildAlbumMapFirstWins(_, _)
BuildAlbumMapFirstWins(albumPhotos, albumMap) ==
    IF albumPhotos = <<>> THEN albumMap
    ELSE LET element == Head(albumPhotos)
             key == GetPhotoName(element)
         IN  BuildAlbumMapFirstWins(Tail(albumPhotos),
                 IF MapHas(albumMap, key) THEN albumMap
                 ELSE MapSet(albumMap, key, element))

\* buildAlbumMap( albumPhotos ): albumMap.set( key, element ) for each element
RECURSIVE BuildAlbumMap(_, _)
BuildAlbumMap(albumPhotos, albumMap) ==
    IF albumPhotos = <<>> THEN albumMap
    ELSE LET element == Head(albumPhotos)
             key == GetPhotoName(element)
         IN  BuildAlbumMap(Tail(albumPhotos), MapSet(albumMap, key, element))

\* getGalleryPhotos(): the names of the directories in photosPath
GetGalleryPhotos(tree) == DOMAIN tree

\* the Map returned with nothing deleted from it
FilterAlbumPhotosNothing(map, galleryPhotos) == map

\* filterAlbumPhotos( albumPhotoMap, galleryPhotos )
RECURSIVE FilterAlbumPhotos(_, _)
FilterAlbumPhotos(map, galleryPhotos) ==
    IF galleryPhotos = {} THEN map
    ELSE LET element == CHOOSE g \in galleryPhotos : TRUE
         IN  FilterAlbumPhotos(MapDelete(map, element), galleryPhotos \ {element})

\* a directory of the gallery: the photo files in it and its index.md (the
\* empty document when there is none)
EmptyDir == [photos |-> {}, index |-> <<>>]

\* fs.mkdir( newDirPath )
Mkdir(tree, key) ==
    [k \in DOMAIN tree \cup {key} |-> IF k = key THEN EmptyDir ELSE tree[k]]

\* the copy left out
CopyToGalleryNothing(tree, key, value) == tree

\* fs.copyFile( value, path.join( newDirPath, path.basename( value ) ) )
CopyToGallery(tree, key, value) ==
    [tree EXCEPT ![key].photos = @ \cup {value.name}]

\* fs.writeFile( path.join( newDirPath, "index.md" ), frontMatter )
WriteGalleryIndex(tree, key, frontMatter) ==
    [tree EXCEPT ![key].index = frontMatter]

\* let albumPhotoMap = this.buildAlbumMap( albumPhotos )
DoBuildAlbumMap ==
    /\ pc = "new"
    /\ albumPhotoMap' = BuildAlbumMap(arg.albumPhotos, <<>>)
    /\ pc' = "mapped"
    /\ UNCHANGED <<photoList, albumList, zone, importList, fs, dirs,
                   importCache, exiftoolEnded, ai, pj, cur, cached, err, runs,
                   tagWrites, runTags, copyLog, startCache, halted, arg, ret,
                   xi, fsBefore, gallery, mi>>

\* this.filterAlbumPhotos( albumPhotoMap, await this.getGalleryPhotos() )
DoFilterAlbumPhotos ==
    /\ pc = "mapped"
    /\ albumPhotoMap' = FilterAlbumPhotos(albumPhotoMap, GetGalleryPhotos(gallery))
    /\ pc' = "filtered"
    /\ UNCHANGED <<photoList, albumList, zone, importList, fs, dirs,
                   importCache, exiftoolEnded, ai, pj, cur, cached, err, runs,
                   tagWrites, runTags, copyLog, startCache, halted, arg, ret,
                   xi, fsBefore, gallery, mi>>

\* copyAlbumPhotos( newGalleryPhotos ) is called
CopyAlbumPhotosCall ==
    /\ pc = "filtered"
    /\ pc' = "copy"
    /\ mi' = 1
    /\ UNCHANGED <<photoList, albumList, zone, importList, fs, dirs,
                   importCache, exiftoolEnded, ai, pj, cur, cached, err, runs,
                   tagWrites, runTags, copyLog, startCache, halted, arg, ret,
                   xi, fsBefore, albumPhotoMap, gallery>>

\* path.join( this.photosPath, key ) throws a TypeError for a key that is not
\* a string
JoinThrows(key) == key = Null

\* the directory of the entry is made
CopyMkdir ==
    /\ pc = "copy"
    /\ mi <= Len(albumPhotoMap)
    /\ ~JoinThrows(albumPhotoMap[mi].key)
    /\ albumPhotoMap[mi].key \notin DOMAIN gallery
    /\ gallery' = Mkdir(gallery, albumPhotoMap[mi].key)
    /\ pc' = "copy-file"
    /\ UNCHANGED <<photoList, albumList, zone, importList, fs, dirs,
                   importCache, exiftoolEnded, ai, pj, cur, cached, err, runs,
                   tagWrites, runTags, copyLog, startCache, halted, arg, ret,
                   xi, fsBefore, albumPhotoMap, mi>>

\* path.join throws: copyAlbumPhotos rejects before fs.mkdir is reached
CopyJoinThrows ==
    /\ pc = "copy"
    /\ mi <= Len(albumPhotoMap)
    /\ JoinThrows(albumPhotoMap[mi].key)
    /\ err' = [kind |-> "TypeError", op |-> "copyAlbumPhotos"]
    /\ pc' = "failed"
    /\ UNCHANGED <<photoList, albumList, zone, importList, fs, dirs,
                   importCache, exiftoolEnded, ai, pj, cur, cached, runs,
                   tagWrites, runTags, copyLog, startCache, halted, arg, ret,
                   xi, fsBefore, albumPhotoMap, gallery, mi>>

\* the photo is copied into the new directory
CopyPhoto ==
    /\ pc = "copy-file"
    /\ gallery' = CopyToGallery(gallery, albumPhotoMap[mi].key, albumPhotoMap[mi].val)
    /\ pc' = "copy-index"
    /\ UNCHANGED <<photoList, albumList, zone, importList, fs, dirs,
                   importCache, exiftoolEnded, ai, pj, cur, cached, err, runs,
                   tagWrites, runTags, copyLog, startCache, halted, arg, ret,
                   xi, fsBefore, albumPhotoMap, mi>>

\* getExifData, buildTomlFrontMatter and the write of index.md; getExifData
\* throwing ends copyAlbumPhotos
CopyIndex ==
    /\ pc = "copy-index"
    /\ LET key == albumPhotoMap[mi].key
           value == albumPhotoMap[mi].val
           fileData == arg.fileData[value]
       IN  IF ExifDataThrows(fileData)
           THEN /\ pc' = "failed"
                /\ err' = ExifError
                /\ UNCHANGED <<gallery, mi>>
           ELSE /\ gallery' = WriteGalleryIndex(gallery, key,
                                  BuildTomlFrontMatter(GetExifData(value, fileData)))
                /\ mi' = mi + 1
                /\ pc' = "copy"
                /\ err' = err
    /\ UNCHANGED <<photoList, albumList, zone, importList, fs, dirs,
                   importCache, exiftoolEnded, ai, pj, cur, cached, runs,
                   tagWrites, runTags, copyLog, startCache, halted, arg, ret,
                   xi, fsBefore, albumPhotoMap>>

\* the loop is over: copyAlbumPhotos resolves
CopyAlbumPhotosReturn ==
    /\ pc = "copy"
    /\ mi > Len(albumPhotoMap)
    /\ pc' = "promoted"
    /\ UNCHANGED <<photoList, albumList, zone, importList, fs, dirs,
                   importCache, exiftoolEnded, ai, pj, cur, cached, err, runs,
                   tagWrites, runTags, copyLog, startCache, halted, arg, ret,
                   xi, fsBefore, albumPhotoMap, gallery, mi>>

----------------------------------------------------------------------------
(* The promotion of album photos into the gallery *)

AlbumK1 == <<"content", "albums", "k1">>
AlbumK2 == <<"content", "albums", "k2">>

IgSuffix == <<"+", "0", "0", "0", "0", "-", "i", "g">>
IgSuffixOtherZone == <<"+", "0", "9", "3", "0", "-", "i", "g">>

\* album photo files: two of the same capture time in different albums, one
\* of another time, and two whose names hold no key
AlbumPhotoFiles ==
    {PhotoFile(AlbumK1, DatePart \o <<"-">> \o TimePart \o IgSuffix \o JpgExt),
     PhotoFile(AlbumK2, DatePart \o <<"-">> \o TimePart \o IgSuffixOtherZone \o JpgExt),
     PhotoFile(AlbumK1, OtherKey \o IgSuffix \o JpgExt),
     PhotoFile(AlbumK1, [DatePart EXCEPT ![8] = "a"] \o <<"-">> \o TimePart \o IgSuffix \o JpgExt),
     PhotoFile(AlbumK2, <<"i", "m", "g">> \o JpgExt)}

\* what fast-glob may return: up to three of the files, in any order
AlbumPhotoLists ==
    {<<>>} \cup {<<f>> : f \in AlbumPhotoFiles}
        \cup {l \in AlbumPhotoFiles \X AlbumPhotoFiles : l[1] # l[2]}
        \cup {l \in AlbumPhotoFiles \X AlbumPhotoFiles \X AlbumPhotoFiles :
                l[1] # l[2] /\ l[1] # l[3] /\ l[2] # l[3]}

\* the metadata in the files: all with a description and a date, or one file
\* without any
TaggedExif == Exif(TRUE, <<"a", " ", Hash, "a">>, TRUE, TicksPerDay)

FileDatas ==
    {[f \in AlbumPhotoFiles |-> TaggedExif],
     [f \in AlbumPhotoFiles |->
        IF f.name = OtherKey \o IgSuffix \o JpgExt THEN NoExif ELSE TaggedExif]}

\* a gallery directory made by hand or by an earlier run
OldDir == [photos |-> {<<"o">> \o JpgExt}, index |-> <<TextChunk>>]

GalleryTrees ==
    {[k \in names |-> OldDir] :
        names \in SUBSET {DatePart \o <<"-">> \o TimePart, OtherKey}}

InitPromote ==
    \E albumPhotos \in AlbumPhotoLists, fileData \in FileDatas,
       tree \in GalleryTrees :
        InitState(<<>>, <<>>, 0,
                  [albumPhotos |-> albumPhotos, fileData |-> fileData,
                   gallery |-> tree],
                  tree)

NextPromote ==
    \/ DoBuildAlbumMap
    \/ DoFilterAlbumPhotos
    \/ CopyAlbumPhotosCall
    \/ CopyMkdir
    \/ CopyJoinThrows
    \/ CopyPhoto
    \/ CopyIndex
    \/ CopyAlbumPhotosReturn

SpecPromote == InitPromote /\ [][NextPromote]_vars

\* the keys of the album photos, the photos of a key, and the keys that are
\* not yet names of gallery directories when the promotion starts
KeyOf(file) == GetPhotoName(file)

AlbumPhotoKeys ==
    {KeyOf(arg.albumPhotos[i]) : i \in 1..Len(arg.albumPhotos)} \ {Null}

PhotosOfKey(k) ==
    {arg.albumPhotos[i] : i \in {j \in 1..Len(arg.albumPhotos) :
                                    KeyOf(arg.albumPhotos[j]) = k}}

NewKeys == AlbumPhotoKeys \ DOMAIN arg.gallery

CreatedDirs == DOMAIN gallery \ DOMAIN arg.gallery

\* C18: the promotion never creates, changes or deletes anything in a gallery
\* directory that existed before it, and makes directories only for keys of
\* album photos that were not names of gallery directories; when it has
\* completed, there is one for exactly those keys, each holding the copy of a
\* photo of that key and an index.md with a front matter block.
C18_OnlyNewKeysPromoted ==
    /\ \A k \in DOMAIN arg.gallery : k \in DOMAIN gallery /\ gallery[k] = arg.gallery[k]
    /\ CreatedDirs \subseteq NewKeys
    /\ pc = "promoted" =>
        /\ CreatedDirs = NewKeys
        /\ \A k \in NewKeys :
            /\ \E f \in PhotosOfKey(k) : gallery[k].photos = {f.name}
            /\ Len(gallery[k].index) = 3
            /\ gallery[k].index[1] = Marker
            /\ gallery[k].index[2].kind = "toml"
            /\ gallery[k].index[3] = Marker

\* the promotion completed: one key was already in the gallery, another got
\* its directory
C18_Witness ==
    /\ pc = "promoted"
    /\ NewKeys # {}
    /\ AlbumPhotoKeys \cap DOMAIN arg.gallery # {}

\* C19: a photo whose file name yields no key has no entry in the Map, is not
\* copied into the gallery, and does not make the promotion fail.
C19_NullKeyDropped ==
    /\ ~MapHas(albumPhotoMap, Null)
    /\ \A k \in CreatedDirs : \A f \in PhotosOfKey(Null) : f.name \notin gallery[k].photos
    /\ ~(pc = "failed" /\ err = [kind |-> "TypeError", op |-> "copyAlbumPhotos"])

----------------------------------------------------------------------------
(* The argument checks at the head of every public operation *)

\* the values an argument can be, as far as the checks tell them apart
JsValues ==
    {"undefined", "null", "emptyString", "string", "dateString", "zero",
     "number", "false", "true", "object", "array", "map"}

\* !v is true
Falsy(v) == v \in {"undefined", "null", "emptyString", "zero", "false"}

\* typeof v
TypeOf(v) ==
    CASE v = "undefined" -> "undefined"
      [] v \in {"emptyString", "string", "dateString"} -> "string"
      [] v \in {"zero", "number"} -> "number"
      [] v \in {"false", "true"} -> "boolean"
      [] OTHER -> "object"

\* Array.isArray( v )
IsArray(v) == v = "array"

\* the test passed by any object
InstanceOfMapOrObject(v) == v \in {"map", "object"}

\* v instanceof Map
InstanceOfMap(v) == v = "map"

\* DateTime.fromISO( v ).isValid
IsValidISO(v) == v = "dateString"

\* the operations and the type each parameter is checked for, in the order of
\* the checks
Parameters ==
    [filterPhotoList |-> <<"Array", "date">>,
     buildImportList |-> <<"Array", "Array">>,
     updateAlbumDetails |-> <<"Array", "Map">>,
     updateIndexFiles |-> <<"Array">>,
     updateExifTags |-> <<"object">>,
     importPhoto |-> <<"string", "object">>,
     importPhotos |-> <<"Map">>,
     getPhotoName |-> <<"string">>,
     buildAlbumMap |-> <<"Array">>,
     filterAlbumPhotos |-> <<"Map", "Array">>,
     copyAlbumPhotos |-> <<"Map">>,
     getExifData |-> <<"string">>,
     buildTomlFrontMatter |-> <<"Map">>,
     getTags |-> <<"string", "boolean">>]

Operations == DOMAIN Parameters

\* the check of one parameter throws
CheckThrows(type, v) ==
    CASE type = "Array" -> Falsy(v) \/ ~IsArray(v)
      [] type = "string" -> Falsy(v) \/ TypeOf(v) # "string"
      [] type = "date" -> Falsy(v) \/ TypeOf(v) # "string" \/ ~IsValidISO(v)
      [] type = "object" -> Falsy(v) \/ TypeOf(v) # "object"
      [] type = "Map" -> Falsy(v) \/ ~InstanceOfMap(v)
      [] type = "boolean" ->
            TypeOf(IF v = "undefined" THEN "true" ELSE v) # "boolean"

\* an object that is not a photo record passes the typeof check; the first
\* statement that uses it hands undefined to path.extname or path.basename,
\* which throws a TypeError before any file is touched
BodyThrows(type, v) == type = "object" /\ v # "object"

\* the call throws a TypeError
CallThrows(op, args) ==
    \E i \in 1..Len(Parameters[op]) :
        CheckThrows(Parameters[op][i], args[i]) \/ BodyThrows(Parameters[op][i], args[i])

\* an operation is called with the arguments; what follows the checks is the
\* matter of the other specifications
DoCall ==
    /\ pc = "new"
    /\ IF CallThrows(arg.op, arg.args)
       THEN /\ pc' = "failed"
            /\ err' = [kind |-> "TypeError", op |-> arg.op]
       ELSE /\ pc' = "passed"
            /\ err' = err
    /\ UNCHANGED <<photoList, albumList, zone, importList, fs, dirs,
                   importCache, exiftoolEnded, ai, pj, cur, cached, runs,
                   tagWrites, runTags, copyLog, startCache, halted, arg, ret,
                   xi, fsBefore, albumPhotoMap, gallery, mi>>

InitValidate ==
    \E op \in Operations :
        \E args \in [1..Len(Parameters[op]) -> JsValues] :
            \E photos \in PhotoListsOf({<<"a">>}, {1}),
               albums \in AlbumListsOf({<< <<"a">> >>}, {0}),
               tree \in GalleryTrees :
                InitState(photos, albums, 0, [op |-> op, args |-> args], tree)

NextValidate == DoCall

SpecValidate == InitValidate /\ [][NextValidate]_vars

\* what the documentation of a parameter asks for
RightShape(type, v) ==
    CASE type = "Array" -> v = "array"
      [] type = "string" -> v \in {"string", "dateString"}
      [] type = "date" -> v = "dateString"
      [] type = "object" -> v = "object"
      [] type = "Map" -> v = "map"
      [] type = "boolean" -> v \in {"true", "false", "undefined"}

WrongArgument ==
    \E i \in 1..Len(Parameters[arg.op]) :
        ~RightShape(Parameters[arg.op][i], arg.args[i])

----------------------------------------------------------------------------
(* getPhotoList: the photo records read from the export *)

\* the coordinates an export entry may carry
Latitude == <<"l", "a", "t">>
Longitude == <<"l", "o", "n">>

\* delete obj[ key ] and obj[ key ] = value on an object
DeleteKey(obj, key) == [k \in DOMAIN obj \ {key} |-> obj[k]]
SetKey(obj, key, value) == [k \in DOMAIN obj \cup {key} |->
                               IF k = key THEN value ELSE obj[k]]

\* photo.media_metadata.photo_metadata.latitude !== undefined and the same
\* for the longitude, below the tests that the objects above them exist
HasCoordinates(photo) ==
    /\ "media_metadata" \in DOMAIN photo
    /\ "photo_metadata" \in DOMAIN photo.media_metadata
    /\ "latitude" \in DOMAIN photo.media_metadata.photo_metadata
    /\ "longitude" \in DOMAIN photo.media_metadata.photo_metadata

\* the body of the loop with the delete left out
PhotoRecordKeepsMetadata(photo) ==
    IF HasCoordinates(photo)
    THEN SetKey(photo, "gps",
                [latitude |-> photo.media_metadata.photo_metadata.latitude,
                 longitude |-> photo.media_metadata.photo_metadata.longitude])
    ELSE photo

\* photo.gps = { latitude, longitude }; delete photo.media_metadata
PhotoRecord(photo) ==
    IF HasCoordinates(photo)
    THEN DeleteKey(SetKey(photo, "gps",
                     [latitude |-> photo.media_metadata.photo_metadata.latitude,
                      longitude |-> photo.media_metadata.photo_metadata.longitude]),
                   "media_metadata")
    ELSE photo

\* the loop of getPhotoList over the parsed export
RECURSIVE GetPhotoList(_, _)
GetPhotoList(media, list) ==
    IF media = <<>> THEN list
    ELSE LET element == Head(media)
         IN  IF Len(element.media) > 0
             THEN GetPhotoList(Tail(media), Append(list, PhotoRecord(element.media[1])))
             ELSE GetPhotoList(Tail(media), list)

\* const photoList = await this.getPhotoList(): the export is missing
\* (TypeError) or is read
DoGetPhotoList ==
    /\ pc = "new"
    /\ IF arg.found
       THEN /\ ret' = GetPhotoList(arg.media, <<>>)
            /\ pc' = "returned"
            /\ err' = err
       ELSE /\ ret' = ret
            /\ pc' = "failed"
            /\ err' = [kind |-> "TypeError", op |-> "getPhotoList"]
    /\ UNCHANGED <<photoList, albumList, zone, importList, fs, dirs,
                   importCache, exiftoolEnded, ai, pj, cur, cached, runs,
                   tagWrites, runTags, copyLog, startCache, halted, arg, xi,
                   fsBefore, albumPhotoMap, gallery, mi>>

\* what an export entry's media item may hold under media_metadata
NoObject == [k \in {} |-> 0]

MediaMetadatas ==
    {NoObject,
     [photo_metadata |-> NoObject],
     [photo_metadata |-> [latitude |-> Latitude]],
     [photo_metadata |-> [longitude |-> Longitude]],
     [photo_metadata |-> [latitude |-> Latitude, longitude |-> Longitude]],
     [photo_metadata |-> [latitude |-> Latitude, longitude |-> Longitude,
                          exif_data |-> NoObject]]}

\* media items: with the four keys of the export, and one without metadata
MediaItems(base) ==
    {SetKey(Photo(base, <<"a">>, 1), "media_metadata", m) : m \in MediaMetadatas}
        \cup {Photo(base, <<"a">>, 1)}

\* export entries: one media item, two (the first is taken) or none
ExportEntries(base) ==
    {[media |-> <<p>>] : p \in MediaItems(base)}
        \cup {[media |-> <<p, Photo(base + 2, <<"b">>, 2)>>] : p \in MediaItems(base)}
        \cup {[media |-> <<>>]}

InitExport ==
    \E e1 \in ExportEntries(1), e2 \in ExportEntries(2), found \in BOOLEAN :
        InitCall(<<>>, <<>>, 0, [media |-> <<e1, e2>>, found |-> found])

NextExport == DoGetPhotoList

SpecExport == InitExport /\ [][NextExport]_vars

\* the media items getPhotoList takes, in the order of the export
RECURSIVE FirstItems(_)
FirstItems(media) ==
    IF media = <<>> THEN <<>>
    ELSE IF Len(Head(media).media) > 0
         THEN <<Head(media).media[1]>> \o FirstItems(Tail(media))
         ELSE FirstItems(Tail(media))

ExpectedPhotoKeys == {"uri", "creation_timestamp", "media_metadata", "title"}

----------------------------------------------------------------------------
(* run( filterDate ): the import command *)

\* an await that lets the next statement execute after a rejection too
ResolvedOrRejected(e) == TRUE

\* await: the statement after it executes only when the call resolved
Resolved(e) == e = NoError

\* let photoList = await this.getPhotoList()
RunGetPhotoList ==
    /\ pc = "run"
    /\ IF arg.exportFound
       THEN /\ photoList' = GetPhotoList(arg.media, <<>>)
            /\ pc' = "run-listed"
            /\ err' = err
       ELSE /\ photoList' = photoList
            /\ pc' = "failed"
            /\ err' = [kind |-> "TypeError", op |-> "getPhotoList"]
    /\ UNCHANGED <<albumList, zone, importList, fs, dirs, importCache,
                   exiftoolEnded, ai, pj, cur, cached, runs, tagWrites,
                   runTags, copyLog, startCache, halted>>
    /\ UNCHANGED pagesVars

\* if ( filterDate !== undefined ) photoList = this.filterPhotoList( ... ),
\* then the return when no photo is left
RunFilterPhotoList ==
    /\ pc = "run-listed"
    /\ IF arg.filterDefined /\ ~arg.filterDate.valid
       THEN /\ photoList' = photoList
            /\ pc' = "failed"
            /\ err' = [kind |-> "TypeError", op |-> "filterPhotoList"]
       ELSE /\ photoList' = IF arg.filterDefined
                            THEN FilterPhotoList(photoList, arg.filterDate)
                            ELSE photoList
            /\ pc' = IF Len(photoList') = 0 THEN "done" ELSE "start"
            /\ err' = err
    /\ UNCHANGED <<albumList, zone, importList, fs, dirs, importCache,
                   exiftoolEnded, ai, pj, cur, cached, runs, tagWrites,
                   runTags, copyLog, startCache, halted>>
    /\ UNCHANGED pagesVars

\* if ( importList.size === 0 ) return
RunNoAlbums ==
    /\ pc = "idle"
    /\ runs = 0
    /\ Len(importList) = 0
    /\ pc' = "done"
    /\ UNCHANGED <<photoList, albumList, zone, importList, fs, dirs,
                   importCache, exiftoolEnded, ai, pj, cur, cached, err, runs,
                   tagWrites, runTags, copyLog, startCache, halted>>
    /\ UNCHANGED pagesVars

\* await this.importPhotos( importList )
RunImportPhotos ==
    /\ runs = 0
    /\ Len(importList) > 0
    /\ ImportPhotosCall

\* albumDetails = this.updateAlbumDetails( albumDetails, importList ), once
\* importPhotos has resolved
RunUpdateAlbumDetails ==
    /\ runs > 0
    /\ Resolved(err)
    /\ DoUpdateAlbumDetails

\* await this.tidyUp() at the end of run
RunTidyUp ==
    /\ pc = "indexed"
    /\ exiftoolEnded' = ExiftoolEnd(exiftoolEnded)
    /\ pc' = "done"
    /\ UNCHANGED <<photoList, albumList, zone, importList, fs, dirs,
                   importCache, ai, pj, cur, cached, err, runs, tagWrites,
                   runTags, copyLog, startCache, halted>>
    /\ UNCHANGED pagesVars

\* the export of a run: an older and a newer photo
RunPhotoLists ==
    {<<Photo(1, t1, 1), Photo(2, t2, TicksPerDay + 1)>> :
        <<t1, t2>> \in IndexTitles \X IndexTitles}

\* no filter date, dates that keep both, one or no photo, and an invalid one
RunFilterDates ==
    {[defined |-> FALSE, date |-> InvalidDate],
     [defined |-> TRUE, date |-> InvalidDate]}
        \cup {[defined |-> TRUE, date |-> ISODate(d)] : d \in 0..2}

\* documents of a run: a page without front matter, two albums, a document
\* toml.parse rejects
RunDocs ==
    {<<TextChunk>>,
     <<Marker, TomlChunk(AlbumLines(0, << <<"a">> >>)), Marker, TextChunk>>,
     <<Marker, TomlChunk(AlbumLines(0, << <<"b">> >>)), Marker, TextChunk>>,
     <<Marker, TomlChunk(AlbumLines(0, << <<"a">> >>)), Marker, TextChunk, Marker>>}

RunFoundOrders == {f \in FoundOrders : f[2] = <<"content", "albums", "k2", "index.md">>}

\* a new command object in a process whose exiftool singleton is running or
\* was ended before, about to execute run( filterDate )
InitRun ==
    \E photos \in RunPhotoLists,
       found \in RunFoundOrders,
       docs \in [1..3 -> RunDocs],
       filter \in RunFilterDates,
       ended \in BOOLEAN,
       exportFound \in BOOLEAN :
        LET photoFiles == {PhotoPath(photos[i]) : i \in 1..Len(photos)}
            indexFiles == {IndexFile(found[i]) : i \in 1..3}
        IN  /\ photoList = <<>>
            /\ albumList = <<>>
            /\ zone = 0
            /\ importList = <<>>
            /\ fs = [p \in photoFiles \cup indexFiles |->
                        IF p \in photoFiles
                        THEN Untagged(CHOOSE ph \in {photos[i] : i \in 1..Len(photos)} :
                                         PhotoPath(ph) = p)
                        ELSE docs[CHOOSE i \in 1..3 : IndexFile(found[i]) = p]]
            /\ dirs = {Dirname(found[i]) : i \in 1..3}
            /\ importCache = <<>>
            /\ exiftoolEnded = ended
            /\ pc = "run"
            /\ ai = 1
            /\ pj = 1
            /\ cur = "none"
            /\ cached = FALSE
            /\ err = NoError
            /\ runs = 0
            /\ tagWrites = [k \in {photos[i].uri : i \in 1..Len(photos)} |-> 0]
            /\ runTags = [k \in {photos[i].uri : i \in 1..Len(photos)} |-> 0]
            /\ copyLog = <<>>
            /\ startCache = {}
            /\ halted = {}
            /\ arg = [media |-> [i \in 1..Len(photos) |-> [media |-> <<photos[i]>>]],
                      exportFound |-> exportFound,
                      filterDefined |-> filter.defined,
                      filterDate |-> filter.date,
                      found |-> found,
                      ended |-> ended]
            /\ ret = "none"
            /\ xi = 1
            /\ fsBefore = fs
            /\ albumPhotoMap = <<>>
            /\ gallery = <<>>
            /\ mi = 1

NextRun ==
    \/ RunGetPhotoList
    \/ RunFilterPhotoList
    \/ DoGetAlbumDetails
    \/ DoBuildImportList
    \/ RunNoAlbums
    \/ RunImportPhotos
    \/ CacheHit
    \/ ExifWrite
    \/ RenameToNew
    \/ RenameOriginalBack
    \/ RenameOriginalBackFails
    \/ ImportPhoto
    \/ ImportPhotosReturn
    \/ RunUpdateAlbumDetails
    \/ UpdateIndexFilesCall
    \/ IndexSkip
    \/ IndexBackup
    \/ IndexBackupFails
    \/ IndexWrite
    \/ IndexWriteFails
    \/ UpdateIndexFilesReturn
    \/ RunTidyUp

SpecRun == InitRun /\ [][NextRun]_vars

----------------------------------------------------------------------------
(* The exiftool handle and the order of the steps of run *)

\* run has returned
RunReturned == pc = "done"

\* what every step does to the handle: a write goes through a handle that is
\* not ended, and the end at the close of run finds the handle ended by
\* importPhotos and leaves it ended, without an error
HandleSteps ==
    /\ tagWrites' # tagWrites => ~exiftoolEnded'
    /\ (pc = "indexed" /\ pc' = "done") =>
        /\ exiftoolEnded
        /\ exiftoolEnded'
        /\ err' = NoError

\* C22 as stated: updateExifTags never writes through an ended handle, after
\* a run that returned without an error the handle is ended, and the second
\* end leaves it ended without an error.
C22_EndedAfterEveryRun ==
    [][/\ HandleSteps
       /\ pc' = "done" => exiftoolEnded']_vars

\* C22: updateExifTags never writes through an ended handle (a handle found
\* ended is replaced before the write); after a run that reached importPhotos
\* and returned without an error the handle is ended; the second end (by run,
\* after the one by importPhotos) leaves it ended without an error. A run that
\* returns before importPhotos leaves the handle as it found it.
C22_EndedAfterImport ==
    [][/\ HandleSteps
       /\ (pc' = "done" /\ runs' > 0) => exiftoolEnded'
       /\ (pc' = "done" /\ runs' = 0) => exiftoolEnded' = arg.ended]_vars

\* a run that found the handle ended, wrote tags, and returned
C22_Witness ==
    /\ RunReturned
    /\ arg.ended
    /\ runs > 0
    /\ exiftoolEnded
    /\ \E k \in DOMAIN tagWrites : tagWrites[k] > 0

\* the step of run that is under way or comes next
RunStage ==
    CASE pc = "run" -> 0
      [] pc = "run-listed" -> 1
      [] pc = "start" -> 2
      [] pc = "new" -> 3
      [] pc = "idle" /\ runs = 0 -> 4
      [] pc \in {"loop", "written", "renamed", "import"} -> 5
      [] pc = "idle" /\ runs > 0 -> 6
      [] pc = "detailed" -> 7
      [] pc \in {"index", "index-write"} -> 8
      [] pc = "indexed" -> 9
      [] OTHER -> 10

\* run has returned or a step has thrown
RunStopped == pc \in {"done", "failed"} \/ err # NoError

\* the index documents and their backups, and whether a step changes one of
\* them or another file
IndexPaths ==
    {IndexFile(arg.found[i]) : i \in 1..Len(arg.found)}
        \cup {OldPath(arg.found[i]) : i \in 1..Len(arg.found)}

Touched(p) ==
    \/ (p \in DOMAIN fs) # (p \in DOMAIN fs')
    \/ p \in DOMAIN fs /\ p \in DOMAIN fs' /\ fs'[p] # fs[p]

IndexTouched == \E p \in IndexPaths : Touched(p)

PhotoTouched == \E p \in (DOMAIN fs \cup DOMAIN fs') \ IndexPaths : Touched(p)

\* importPhoto was carried out for every photo of every album of the list
ImportedAll ==
    \A i \in 1..Len(importList) : \A j \in 1..Len(importList[i].val) :
        \E n \in 1..Len(copyLog) :
            /\ copyLog[n].album = importList[i].key
            /\ copyLog[n].key = importList[i].val[j].key

\* C23: the steps of run execute in the order read export, filter, read
\* albums, build import list, import photos, update album details, rewrite
\* index documents, each one changing what it is there to change; once a step
\* has thrown (or run has returned) nothing more executes; an index document
\* is rewritten or backed up only after importPhotos has imported every photo
\* of every album.
C23_StepsInOrder ==
    [][/\ ~RunStopped
       /\ RunStopped' \/ RunStage' \in {RunStage, RunStage + 1}
       /\ photoList' # photoList => RunStage \in {0, 1}
       /\ albumList' # albumList => RunStage \in {2, 6}
       /\ importList' # importList => RunStage = 3
       /\ PhotoTouched => RunStage = 5
       /\ IndexTouched => RunStage = 8 /\ ImportedAll /\ exiftoolEnded]_vars

\* importPhotos threw after it had imported a photo into an album: the album
\* list is as getAlbumDetails returned it and no index document has a backup
C23_Witness ==
    /\ pc = "idle"
    /\ err = [kind |-> "FsError", op |-> "updateExifTags"]
    /\ Len(copyLog) > 0
    /\ \E i \in 1..Len(albumList) : MapHas(importList, albumList[i].albumKey)
    /\ \A i \in 1..Len(albumList) : ~albumList[i].updated
    /\ \A i \in 1..Len(arg.found) : ~Exists(fs, OldPath(arg.found[i]))

----------------------------------------------------------------------------
(* buildAlbumMap: one entry per key *)

\* the keys getPhotoName gives for the album photos (null is one of them) and
\* the last position in the input that yields a key
YieldedKeys == {KeyOf(arg.albumPhotos[i]) : i \in 1..Len(arg.albumPhotos)}

LastWith(k) ==
    CHOOSE i \in 1..Len(arg.albumPhotos) :
        /\ KeyOf(arg.albumPhotos[i]) = k
        /\ \A j \in 1..Len(arg.albumPhotos) : KeyOf(arg.albumPhotos[j]) = k => j <= i

\* C24: the Map buildAlbumMap returns holds, for every key that some album
\* photo path yields, a single entry whose value is the last path of the input
\* with that key; its size is the number of distinct keys, and the number of
\* photos when the keys are pairwise distinct.
C24_LastPathWins ==
    pc = "mapped" =>
        /\ MapKeys(albumPhotoMap) = YieldedKeys
        /\ \A k \in YieldedKeys :
            /\ Cardinality({i \in 1..Len(albumPhotoMap) : albumPhotoMap[i].key = k}) = 1
            /\ MapGet(albumPhotoMap, k) = arg.albumPhotos[LastWith(k)]
        /\ Len(albumPhotoMap) = Cardinality(YieldedKeys)
        /\ Cardinality(YieldedKeys) = Len(arg.albumPhotos) =>
                Len(albumPhotoMap) = Len(arg.albumPhotos)

\* three paths of which the first and the last yield the same key
C24_Witness ==
    /\ pc = "mapped"
    /\ Len(arg.albumPhotos) = 3
    /\ KeyOf(arg.albumPhotos[1]) = KeyOf(arg.albumPhotos[3])
    /\ KeyOf(arg.albumPhotos[1]) # Null
    /\ KeyOf(arg.albumPhotos[2]) # KeyOf(arg.albumPhotos[1])
    /\ Len(albumPhotoMap) = 2
    /\ albumPhotoMap[1].val = arg.albumPhotos[3]

----------------------------------------------------------------------------
(* getAlbumDetails: documents with a further marker *)

\* the lines between the first and the second marker of a document
FirstBlockLines(content) ==
    LET ms == MarkerPositions(content)
        first == CHOOSE i \in ms : \A j \in ms : i <= j
        second == CHOOSE i \in ms \ {first} : \A j \in ms \ {first} : i <= j
    IN  JoinLines(SubSeq(content, first + 1, second - 1))

\* the document has a marker after the closing marker of its first block
HasFurtherMarker(content) == Cardinality(MarkerPositions(content)) >= 3

\* C25: for a document with a further marker after its first block the parsed
\* metadata is that of the first block alone: getAlbumDetails does not fail on
\* it, and it returns a record for it exactly when the first block declares
\* hashtags, with the fields of the first block.
C25_FirstBlockOnly ==
    /\ ~(pc = "failed" /\ err.op = "getAlbumDetails")
    /\ pc = "new" =>
        \A i \in 1..Len(arg.found) :
            LET content == fs[IndexFile(arg.found[i])]
                records == {a \in 1..Len(albumList) :
                                albumList[a].indexPath = arg.found[i]}
            IN  HasFurtherMarker(content) =>
                    IF HasHashtags(TomlParse(FirstBlockLines(content)))
                    THEN \E a \in records :
                            albumList[a] =
                                AnnotateAlbum(TomlParse(FirstBlockLines(content)),
                                              arg.found[i])
                    ELSE records = {}

----------------------------------------------------------------------------
(* The canonical file name in two executions *)

\* the head of updateExifTags, up to newFileName, in the process's zone
DoNewFileName ==
    /\ pc \in {"new", "again"}
    /\ ret' = IF pc = "new" THEN <<NewFileName(arg.photo)>>
              ELSE Append(ret, NewFileName(arg.photo))
    /\ pc' = IF pc = "new" THEN "named" ELSE "returned"
    /\ UNCHANGED <<photoList, albumList, zone, importList, fs, dirs,
                   importCache, exiftoolEnded, ai, pj, cur, cached, err, runs,
                   tagWrites, runTags, copyLog, startCache, halted, arg, xi,
                   fsBefore, albumPhotoMap, gallery, mi>>

\* the command is executed again, by a process whose TZ may be another
NextExecution ==
    /\ pc = "named"
    /\ zone' = arg.nextZone
    /\ pc' = "again"
    /\ UNCHANGED <<photoList, albumList, importList, fs, dirs,
                   importCache, exiftoolEnded, ai, pj, cur, cached, err, runs,
                   tagWrites, runTags, copyLog, startCache, halted, arg, ret,
                   xi, fsBefore, albumPhotoMap, gallery, mi>>

Extensions == {"jpg", "png"}

InitZone ==
    \E ts \in Stamps, ext \in Extensions, z \in Zones, nextZone \in Zones :
        InitCall(<<>>, <<>>, z,
                 [photo |-> [Photo(1, <<"a">>, ts) EXCEPT !.uri.ext = ext],
                  firstZone |-> z,
                  nextZone |-> nextZone])

NextZone ==
    \/ DoNewFileName
    \/ NextExecution

SpecZone == InitZone /\ [][NextZone]_vars

\* C26 as stated: two executions with the same timestamp and extension give
\* the same name whatever the zones of the two processes, and the name keeps
\* the extension.
C26_SameNameInEveryZone ==
    pc = "returned" =>
        /\ ret[1] = ret[2]
        /\ ret[1].ext = arg.photo.uri.ext

\* C26: the canonical name is determined by the capture timestamp, the
\* original extension and the UTC offset of the running process: two
\* executions give the same name exactly when their zones have the same
\* offset; the name holds the wall clock time at that offset and the offset
\* itself, and keeps the original extension.
C26_SameNameInSameZone ==
    pc = "returned" =>
        /\ ret[1] = ret[2] <=> arg.firstZone = arg.nextZone
        /\ \A i \in 1..2 :
            LET z == IF i = 1 THEN arg.firstZone ELSE arg.nextZone
            IN  /\ ret[i].ext = arg.photo.uri.ext
                /\ ret[i].kind = "ig"
                /\ ret[i].n = arg.photo.creation_timestamp + z
                /\ ret[i].z = z

\* the same photo named by processes of two zones on different calendar days
C26_Witness ==
    /\ pc = "returned"
    /\ arg.firstZone # arg.nextZone
    /\ ret[1] # ret[2]
    /\ ret[1].n \div TicksPerDay # ret[2].n \div TicksPerDay
    /\ ret[1].ext = "png"

----------------------------------------------------------------------------
(* copyAlbumPhotos: what a stopped promotion leaves in the gallery *)

\* copyAlbumPhotos has resolved or rejected
CopyStopped == pc \in {"promoted", "failed"}

\* C27: whenever copyAlbumPhotos has stopped, by completing or by failing,
\* every gallery directory it made holds the copied photo and an index.md
\* document, so no directory that a later getGalleryPhotos lists lacks its
\* document.
C27_CreatedDirsComplete ==
    CopyStopped =>
        \A k \in CreatedDirs :
            /\ gallery[k].photos # {}
            /\ gallery[k].index # <<>>

----------------------------------------------------------------------------
(* importPhotos: photos with the same canonical name *)

\* the files in a directory
FilesIn(dir) == {p \in DOMAIN fs : p.dir = dir}

\* C28: after a successful importPhotos every album directory has gained as
\* many files as its bucket has photos, each the tagged copy of its own
\* photo, and the canonical renamed file of every photo of a bucket is that
\* photo's, also when two photos have the same capture timestamp and
\* extension.
C28_NoSharedDestination ==
    Completed =>
        \A i \in 1..Len(importList) :
            LET bucket == importList[i].val
                dir == AlbumDir(importList[i].key)
            IN  /\ Cardinality(FilesIn(dir)) = Len(bucket)
                /\ \A j \in 1..Len(bucket) :
                    LET photo == bucket[j].val
                    IN  /\ fs[NewPhotoPath(photo)] = Tagged(photo)
                        /\ fs[FilePath(dir, NewFileName(photo))] = Tagged(photo)

----------------------------------------------------------------------------
(* importPhoto: the directory of an album *)

\* C29: for every album record, every copy importPhoto makes for the album's
\* key goes into the album's own directory, its albumPath.
C29_CopiesIntoAlbumPath ==
    \A n \in 1..Len(copyLog) : \A a \in 1..Len(albumList) :
        albumList[a].albumKey = copyLog[n].album =>
            ImportTarget(copyLog[n].album, copyLog[n].src).dir = albumList[a].albumPath

----------------------------------------------------------------------------
(* The promotion, run again *)

\* the photo-pages command is run again over the same albums, once the run
\* before it has completed
PromoteAgain ==
    /\ pc = "promoted"
    /\ runs + 1 < MaxRuns
    /\ runs' = runs + 1
    /\ albumPhotoMap' = <<>>
    /\ mi' = 1
    /\ pc' = "new"
    /\ UNCHANGED <<photoList, albumList, zone, importList, fs, dirs,
                   importCache, exiftoolEnded, ai, pj, cur, cached, err,
                   tagWrites, runTags, copyLog, startCache, halted, arg, ret,
                   xi, fsBefore, gallery>>

NextAgain ==
    \/ NextPromote
    \/ PromoteAgain

SpecAgain == InitPromote /\ [][NextAgain]_vars

\* C30: when a promotion has completed, a promotion run again over the same
\* album photos filters its Map down to the empty Map, makes no directory,
\* copies no photo, writes no document, and does not fail.
C30_SecondRunDoesNothing ==
    [][runs >= 1 =>
        /\ gallery' = gallery
        /\ pc' = "filtered" => albumPhotoMap' = <<>>
        /\ pc' # "failed"
        /\ Null \notin YieldedKeys]_vars

\* a second run has completed after a first one that made two directories
C30_Witness ==
    /\ runs >= 1
    /\ pc = "promoted"
    /\ Cardinality(CreatedDirs) = 2
    /\ albumPhotoMap = <<>>
    /\ Len(arg.albumPhotos) = 3

====
